---- MODULE Spec2Model ----
(***************************************************************************)
(* Model of the Markdown -> WeChat HTML rendering pipeline of              *)
(* src/core/renderer.py (MarkdownRenderer.render and its stages).          *)
(*                                                                         *)
(* The BeautifulSoup document is an arena: a sequence of nodes indexed by  *)
(* node id; node 1 is <body>.  A node is a record                          *)
(*   [tag, attrs, kids, text]                                              *)
(* where tag is the element name ("#text" for a NavigableString), attrs    *)
(* maps attribute keys to values, kids is the ordered sequence of child    *)
(* ids and text is the string of a "#text" node as a sequence of           *)
(* characters ("NBSP" is U+00A0, "BULLET" U+2022, "BACKTICK" the grave     *)
(* accent, "BACKREF" U+21A9).  Node ids are object identities: a result    *)
(* list taken by find_all keeps naming the same nodes while the tree is    *)
(* mutated, as the Python references do.                                   *)
(***************************************************************************)
EXTENDS Integers, Sequences, FiniteSets, TLC

VARIABLES
  doc,         \* the BeautifulSoup document render works on
  pc,          \* where render stands: "parsing", "lists", ..., or "raised"
  parsed,      \* history: the document as the parser left it
  calls,       \* history: the calls of style_list_items_recursively, <<list, level>>
  wraps,       \* history: item -> its children just before it was wrapped
  raised,      \* an exception has left render
  forPreview,  \* render's for_preview argument
  mode,        \* render's mode argument
  theme,       \* self.theme, the style dictionary of the selected theme
  output,      \* what render returns: the elements of the body's contents
  theme_name,  \* the name last given to __init__ or set_theme
  available,   \* what get_available_themes returned last
  md,          \* self.md: the footnotes the Markdown instance holds
  markdown_text,   \* render's markdown_text argument
  processed_text,  \* what _preprocess_markdown_text returned
  html_preview,    \* what the preview pane shows (set_html_content)
  articles,        \* self.articles of the main window
  current_article_index,
  editor,          \* the text the Markdown editor holds
  crawl_queue,     \* self.crawl_queue: the tasks [url, article_index]
  crawl_worker,    \* self.crawl_worker: None or <<url of the worker>>
  crawling_article_index,
  signals,         \* the signals of the worker the GUI thread has yet to take
  worker_pc,       \* where CrawlWorker.run stands
  started,         \* history: the URLs whose thread was started, in order
  running,         \* history: the URLs whose thread was started and not yet quit
  queued,          \* history: the URLs queued, in order, with their placeholder ids
  next_id,         \* the identity the next new article gets
  api,             \* one call of a WeChatAPI method: where it stands and its result
  image_cache,     \* ImageCache.cache: original URL -> {'media_id', 'url'}
  upload,          \* the last call of _upload_image and what it returned
  publish,         \* one run of PublishWorker: where it stands and what it did
  document,        \* the document of the editor, piece by piece
  upload_tasks,    \* self.upload_tasks of the editor: the upload ids it holds
  threads          \* the upload threads: upload id -> where thread and worker stand

\* the renderer object and one call of render
rendererVars ==
  <<doc, pc, parsed, calls, wraps, raised, forPreview, mode, theme, output,
    theme_name, available, md, markdown_text, processed_text>>

\* the preview pane of the main window
previewVars == <<html_preview>>

\* the article list, the editor and the crawl queue of the main window
windowVars ==
  <<articles, current_article_index, editor, crawl_queue, crawl_worker,
    crawling_article_index, signals, worker_pc, started, running, queued, next_id>>

\* the application around the renderer
\* the WeChat client and what works with it
\* the pasted pictures of the editor
pasteVars == <<document, upload_tasks, threads>>

serviceVars == <<api, image_cache, upload, publish, pasteVars>>

appVars == <<previewVars, windowVars, serviceVars>>

\* all but the article list, the editor and the crawl queue
exceptWindow == <<rendererVars, previewVars, serviceVars>>

vars == <<rendererVars, appVars>>

\* the renderer object and the text of the call, which the stages of one
\* render leave alone
callVars == <<theme_name, available, md, markdown_text, processed_text>>

(***************************************************************************)
(* Bounds of the checked document families.                                *)
(***************************************************************************)
MaxNodes == 6
MaxRenderNodes == 3

Body == 1

(***************************************************************************)
(* Sequence helpers.                                                       *)
(***************************************************************************)
InSeq(x, s) == \E i \in DOMAIN s : s[i] = x

Remove(s, x) == SelectSeq(s, LAMBDA y : y # x)

IndexOf(s, x) == CHOOSE i \in DOMAIN s : s[i] = x

RECURSIVE Digits(_)
Digits(n) ==
  IF n < 10 THEN <<ToString(n)>> ELSE Digits(n \div 10) \o <<ToString(n % 10)>>

(***************************************************************************)
(* Python string operations on character sequences.                        *)
(***************************************************************************)
\* str.strip() removes leading and trailing whitespace; U+00A0 is whitespace
IsSpace(c) == c \in {" ", "NBSP", "\n", "\t"}

RECURSIVE LStrip(_)
LStrip(s) == IF s = <<>> THEN s ELSE IF IsSpace(Head(s)) THEN LStrip(Tail(s)) ELSE s

RECURSIVE RStrip(_)
RStrip(s) ==
  IF s = <<>> THEN s
  ELSE IF IsSpace(s[Len(s)]) THEN RStrip(SubSeq(s, 1, Len(s) - 1)) ELSE s

Strip(s) == RStrip(LStrip(s))

\* str.replace(a, b) for a single character a and a character or "" b
RECURSIVE ReplaceChar(_, _, _)
ReplaceChar(s, a, b) ==
  IF s = <<>> THEN s
  ELSE <<IF Head(s) = a THEN b ELSE Head(s)>> \o ReplaceChar(Tail(s), a, b)

RemoveChar(s, a) == SelectSeq(s, LAMBDA c : c # a)

(***************************************************************************)
(* BeautifulSoup tree operations.                                          *)
(* Statements run one after the other: Then(d, K) has the tree d that one  *)
(* statement leaves evaluated before K, the rest, starts from it (TLC      *)
(* would otherwise hand the unevaluated expression on).                    *)
(***************************************************************************)
Then(d, K(_)) == IF d = <<>> THEN d ELSE K(d)

\* the same for any value: v is worked out, then K goes on with it
Bind(v, K(_)) == K(v)

NoAttrs == [k \in {} |-> ""]

MkNode(t, a, ks, s) == [tag |-> t, attrs |-> a, kids |-> ks, text |-> s]

IsTag(d, n) == d[n].tag \notin {"#text", "#decomposed"}

\* 0 when n has no parent (the root, a detached or a decomposed node)
ParentOf(d, n) ==
  IF \E m \in DOMAIN d : InSeq(n, d[m].kids)
  THEN CHOOSE m \in DOMAIN d : InSeq(n, d[m].kids)
  ELSE 0

\* Tag.descendants: document (pre-)order, n itself excluded
RECURSIVE Descendants(_, _)
RECURSIVE DescendantsOfAll(_, _)
Descendants(d, n) == DescendantsOfAll(d, d[n].kids)

DescendantsOfAll(d, ks) ==
  IF ks = <<>> THEN <<>>
  ELSE <<Head(ks)>> \o Descendants(d, Head(ks)) \o DescendantsOfAll(d, Tail(ks))

\* find_all(names): matching descendants in document order
FindAll(d, n, names) == SelectSeq(Descendants(d, n), LAMBDA m : d[m].tag \in names)

\* find_all(names, recursive=False): matching direct children
FindChildren(d, n, names) == SelectSeq(d[n].kids, LAMBDA m : d[m].tag \in names)

\* find_all(recursive=False) / find_all(True): element nodes only
ChildTags(d, n) == SelectSeq(d[n].kids, LAMBDA m : IsTag(d, m))

AllTags(d, n) == SelectSeq(Descendants(d, n), LAMBDA m : IsTag(d, m))

\* PageElement.parents
RECURSIVE Parents(_, _)
Parents(d, n) ==
  LET p == ParentOf(d, n) IN IF p = 0 THEN {} ELSE {p} \cup Parents(d, p)

\* find_parent(names): is there an ancestor with one of the names
HasParentNamed(d, n, names) == \E a \in Parents(d, n) : d[a].tag \in names

\* PageElement.extract: take n out of its parent's children
Extract(d, n) ==
  LET p == ParentOf(d, n) IN IF p = 0 THEN d ELSE [d EXCEPT ![p].kids = Remove(@, n)]

\* Tag.unwrap: n is replaced, at its position, by its own children
Unwrap(d, n) ==
  LET p == ParentOf(d, n)
      i == IndexOf(d[p].kids, n)
      ks == d[p].kids
  IN [d EXCEPT ![p].kids = SubSeq(ks, 1, i - 1) \o d[n].kids \o SubSeq(ks, i + 1, Len(ks)),
               ![n].kids = <<>>]

\* what is left of an element whose __dict__ decompose has cleared
Decomposed == MkNode("#decomposed", NoAttrs, <<>>, <<>>)

RECURSIVE ClearAll(_, _)
ClearAll(d, ns) ==
  IF ns = <<>> THEN d
  ELSE Then([d EXCEPT ![Head(ns)] = Decomposed], LAMBDA d1 : ClearAll(d1, Tail(ns)))

\* Tag.decompose: n is extracted; n and every descendant lose their __dict__
Decompose(d, n) == ClearAll(Extract(d, n), <<n>> \o Descendants(d, n))

\* soup.new_tag(name): a fresh, unattached element; its id is Len(d) + 1
NewTag(d, name) == Append(d, MkNode(name, NoAttrs, <<>>, <<>>))

\* a fresh NavigableString (tag.string = s creates one as the only child)
NewString(d, s) == Append(d, MkNode("#text", NoAttrs, <<>>, s))

\* Tag.append(c): c is extracted from where it is and becomes the last child
AppendChild(d, p, c) ==
  LET d1 == Extract(d, c) IN [d1 EXCEPT ![p].kids = Append(@, c)]

\* Tag.insert(0, c)
InsertFirst(d, p, c) ==
  LET d1 == Extract(d, c) IN [d1 EXCEPT ![p].kids = <<c>> \o @]

\* Tag.clear(): every child is extracted
Clear(d, n) == [d EXCEPT ![n].kids = <<>>]

\* tag[key] = value
SetAttr(d, n, key, value) == [d EXCEPT ![n].attrs = (key :> value) @@ @]

\* get_text(strip=True): every string below n stripped, empty ones skipped
RECURSIVE JoinStripped(_, _)
JoinStripped(d, ns) ==
  IF ns = <<>> THEN <<>>
  ELSE (IF d[Head(ns)].tag = "#text" THEN Strip(d[Head(ns)].text) ELSE <<>>)
       \o JoinStripped(d, Tail(ns))

GetTextStrip(d, n) == JoinStripped(d, Descendants(d, n))

(***************************************************************************)
(* The list restructurer: MarkdownRenderer._process_lists.                 *)
(* The routine's state is threaded through as a record                     *)
(*   [doc, calls, wraps, raised]                                           *)
(* calls logs every invocation of style_list_items_recursively as          *)
(* <<list id, level>>; wraps records, for every item that reaches line     *)
(* 318, the children it has at that moment.                                *)
(***************************************************************************)
ListTags == {"ul", "ol"}

indent_size == 2

ItemStyle(level) ==
  "display: block; margin-bottom: 0.5em; padding-left: "
    \o ToString(level * indent_size) \o "em;"

\* prefix_text.replace(" ", NBSP), prefix_text = "{item_counter}. " or "<bullet> "
PrefixText(is_ordered, item_counter) ==
  ReplaceChar(IF is_ordered THEN Digits(item_counter) \o <<".", " ">> ELSE <<"BULLET", " ">>,
              " ", "NBSP")

\* li.find_all(['ul', 'ol'], recursive=False)
NestedLists(d, li) == FindChildren(d, li, ListTags)

\* li.p and len(li.find_all(recursive=False)) == 1
\* (li.p is the first <p> anywhere below li; find_all counts element children)
UnwrapsP(d, li) == FindAll(d, li, {"p"}) # <<>> /\ Len(ChildTags(d, li)) = 1

\* li.p.unwrap()
UnwrapFirstP(d, li) == Unwrap(d, Head(FindAll(d, li, {"p"})))

\* li.get_text(strip=True).replace(NBSP, '').strip()
ItemText(d, li) == Strip(RemoveChar(GetTextStrip(d, li), "NBSP"))

\* not text and not li.find('img')
IsEmptyItem(d, li) == ItemText(d, li) = <<>> /\ FindAll(d, li, {"img"}) = <<>>

\* lines 332-333: item_counter after an item that survived
NextCounter(is_ordered, item_counter) ==
  IF is_ordered THEN item_counter + 1 ELSE item_counter

\* a counter that also counts the deleted items
CounterCountingDeleted(is_ordered, item_counter) ==
  IF is_ordered THEN item_counter + 1 ELSE item_counter

\* lines 312-313: item_counter after a deleted item (continue skips line 333)
CounterAfterDeleted(is_ordered, item_counter) == item_counter

\* for child in list(li.children): content_section.append(child)
RECURSIVE AppendAll(_, _, _)
AppendAll(d, p, cs) ==
  IF cs = <<>> THEN d
  ELSE Then(AppendChild(d, p, Head(cs)), LAMBDA d1 : AppendAll(d1, p, Tail(cs)))

\* lines 316-330: style the item, move its children into a new <section>
\* behind a new marker <span>, make the section the item's only child
WrapItem(d, li, level, is_ordered, item_counter) ==
  LET d1 == SetAttr(d, li, "style", ItemStyle(level))
      d2 == NewTag(d1, "section")
      content_section == Len(d2)
      d3 == AppendAll(d2, content_section, d2[li].kids)
      d4 == NewTag(d3, "span")
      prefix_span == Len(d4)
      d5 == NewString(d4, PrefixText(is_ordered, item_counter))
      d6 == SetAttr([d5 EXCEPT ![prefix_span].kids = <<Len(d5)>>],
                    prefix_span, "style", "margin-right: 0.6em;")
      d7 == InsertFirst(d6, content_section, prefix_span)
  IN AppendChild(Clear(d7, li), li, content_section)

RECURSIVE style_list_items_recursively(_, _, _)
RECURSIVE StyleItems(_, _, _, _, _)
RECURSIVE StyleNested(_, _, _)

\* lines 298-302: one call of the routine on list_tag
style_list_items_recursively(S, list_tag, level) ==
  LET d1 == SetAttr(S.doc, list_tag, "style", "list-style-type: none; padding: 0; margin: 0;")
  IN StyleItems([S EXCEPT !.doc = d1, !.calls = Append(@, <<list_tag, level>>)],
                FindChildren(d1, list_tag, {"li"}), level,
                S.doc[list_tag].tag = "ol", 1)

\* lines 304-305: the nested lists of one item, each at level + 1
StyleNested(S, lists, level) ==
  IF lists = <<>> THEN S
  ELSE StyleNested(style_list_items_recursively(S, Head(lists), level),
                   Tail(lists), level)

\* lines 303-333: the loop over the snapshot of direct-child items
StyleItems(S, items, level, is_ordered, item_counter) ==
  IF items = <<>> THEN S
  ELSE
    LET li == Head(items)
        S1 == StyleNested(S, NestedLists(S.doc, li), level + 1)
        d2 == IF UnwrapsP(S1.doc, li) THEN UnwrapFirstP(S1.doc, li) ELSE S1.doc
    IN IF IsEmptyItem(d2, li)
       THEN StyleItems([S1 EXCEPT !.doc = Decompose(d2, li)],
                       Tail(items), level, is_ordered,
                       CounterAfterDeleted(is_ordered, item_counter))
       ELSE StyleItems([S1 EXCEPT !.doc = WrapItem(d2, li, level, is_ordered, item_counter),
                                  !.wraps = (li :> d2[li].kids) @@ @],
                       Tail(items), level, is_ordered,
                       NextCounter(is_ordered, item_counter))

(***************************************************************************)
(* Lines 335-337: the top-level scan.  soup.find_all(['ul', 'ol']) is      *)
(* taken once, before any list is processed; find_parent is asked of each  *)
(* entry when its turn comes.  An entry may by then have been decomposed   *)
(* together with the item that contained it.  BeautifulSoup documents the  *)
(* behaviour of a decomposed element as undefined.  In the released        *)
(* versions Tag.__getattr__ answers the cleared parent (and name, attrs)   *)
(* by self.find(...), which is None: find_parent finds nothing, the        *)
(* routine is called on the decomposed list and list_tag['style'] = ...    *)
(* raises TypeError at line 300 ("raise").  The other outcome modelled is  *)
(* that the stale entry is passed over ("skip").                           *)
(***************************************************************************)
\* not list_tag.find_parent(['ul', 'ol'])
IsTopLevel(d, list_tag) == ~HasParentNamed(d, list_tag, ListTags)

RECURSIVE ScanLists(_, _, _)
ScanLists(S, lists, stale) ==
  IF lists = <<>> \/ S.raised THEN S
  ELSE
    LET list_tag == Head(lists) IN
    IF S.doc[list_tag].tag = "#decomposed"
    THEN IF stale = "raise"
         THEN [S EXCEPT !.calls = Append(@, <<list_tag, 0>>), !.raised = TRUE]
         ELSE ScanLists(S, Tail(lists), stale)
    ELSE IF IsTopLevel(S.doc, list_tag)
         THEN ScanLists(style_list_items_recursively(S, list_tag, 0), Tail(lists), stale)
         ELSE ScanLists(S, Tail(lists), stale)

_process_lists(d, stale) ==
  ScanLists([doc |-> d, calls |-> <<>>, wraps |-> <<>>, raised |-> FALSE],
            FindAll(d, Body, ListTags), stale)

(***************************************************************************)
(* Step 3 of render (lines 98-101): html.parser feeds the tree builder in  *)
(* document order, so every new node is hung below a node of the rightmost *)
(* path of the tree built so far.  The parse can end after any node: each  *)
(* tree over the vocabulary, up to the bound, is a parsed document.        *)
(***************************************************************************)
TextNode(s) == MkNode("#text", NoAttrs, <<>>, s)

Elem(t) == MkNode(t, NoAttrs, <<>>, <<>>)

ImgNode == MkNode("img", ("src" :> "u") @@ ("alt" :> ""), <<>>, <<>>)

Visible == TextNode(<<"x">>)

Blank == TextNode(<<" ", "NBSP">>)

\* what the list documents may hold below an element
ListContent(parentTag) ==
  CASE parentTag = "body" -> {Elem("ul"), Elem("ol")}
    [] parentTag \in ListTags -> {Elem("li")}
    [] parentTag = "li" ->
         {Visible, Blank, ImgNode, Elem("p"), Elem("blockquote"), Elem("ul"), Elem("ol")}
    [] parentTag = "p" -> {Visible}
    [] parentTag = "blockquote" -> {Elem("p"), Elem("ul")}
    [] OTHER -> {}

AddNode(d, p, node) == [Append(d, node) EXCEPT ![p].kids = Append(@, Len(d) + 1)]

RightPath(d) == {Len(d)} \cup Parents(d, Len(d))

(***************************************************************************)
(* Text that the code inspects character by character (style texts, theme  *)
(* names, the Markdown source) is a sequence of characters; Text makes the *)
(* string that is written into an attribute.                               *)
(***************************************************************************)
RECURSIVE Text(_)
Text(cs) == IF cs = <<>> THEN "" ELSE Head(cs) \o Text(Tail(cs))

UpperCase ==
  <<"A", "B", "C", "D", "E", "F", "G", "H", "I", "J", "K", "L", "M",
    "N", "O", "P", "Q", "R", "S", "T", "U", "V", "W", "X", "Y", "Z">>

LowerCase ==
  <<"a", "b", "c", "d", "e", "f", "g", "h", "i", "j", "k", "l", "m",
    "n", "o", "p", "q", "r", "s", "t", "u", "v", "w", "x", "y", "z">>

\* str.lower()
Lower(cs) ==
  [i \in DOMAIN cs |->
     IF \E j \in 1..26 : UpperCase[j] = cs[i]
     THEN LowerCase[CHOOSE j \in 1..26 : UpperCase[j] = cs[i]]
     ELSE cs[i]]

\* sub in s
Contains(s, sub) ==
  \E i \in 1..(Len(s) - Len(sub) + 1) : SubSeq(s, i, i + Len(sub) - 1) = sub

(***************************************************************************)
(* Themes.  The style dictionaries live in the styles package; a theme is  *)
(* a mapping from keys (tag names, body, wrapper, section, img and the     *)
(* dark-mode colour keys) to inline-style text.                            *)
(***************************************************************************)
ThemeBare ==
     ("body" :> <<"f", "o", "n", "t", "-", "s", "i", "z", "e", ":", " ", "1",
        "6", "p", "x">>)
  @@ ("p" :> <<"m", "a", "r", "g", "i", "n", ":", " ", "1", "e", "m", " ",
        "0">>)

ThemeRich ==
     ("body" :> <<"f", "o", "n", "t", "-", "s", "i", "z", "e", ":", " ", "1",
        "6", "p", "x">>)
  @@ ("body_background_color" :> <<"#", "1", "e", "1", "e", "1", "e">>)
  @@ ("body_text_color" :> <<"#", "d", "d", "d", "d", "d", "d">>)
  @@ ("wrapper" :> <<"p", "a", "d", "d", "i", "n", "g", ":", " ", "1", "0",
        "p", "x">>)
  @@ ("section" :> <<"m", "a", "r", "g", "i", "n", ":", " ", "0">>)
  @@ ("p" :> <<"c", "o", "l", "o", "r", ":", " ", "#", "3", "f", "3", "f",
        "3", "f", ";", " ", "m", "a", "r", "g", "i", "n", ":", " ", "1", "e",
        "m", " ", "0">>)
  @@ ("div" :> <<"b", "a", "c", "k", "g", "r", "o", "u", "n", "d", "-", "c",
        "o", "l", "o", "r", ":", " ", "#", "e", "e", "e", "e", "e", "e">>)
  @@ ("img" :> <<"m", "a", "x", "-", "w", "i", "d", "t", "h", ":", " ", "1",
        "0", "0", "%">>)
  @@ ("li" :> <<"m", "a", "r", "g", "i", "n", ":", " ", "0">>)

Themes == {ThemeBare, ThemeRich}

\* the application as it starts (main_window.py, lines 95-120)
AppStart ==
  /\ html_preview = <<>>
  /\ articles = <<>>
  /\ current_article_index = -1
  /\ editor = <<>>
  /\ crawl_queue = <<>>
  /\ crawl_worker = <<>>
  /\ crawling_article_index = -1
  /\ signals = <<>>
  /\ worker_pc = "idle"
  /\ started = <<>>
  /\ running = {}
  /\ queued = <<>>
  /\ next_id = 1
  /\ api = [pc |-> "idle"]
  /\ image_cache = <<>>
  /\ upload = [caller |-> "none"]
  /\ publish = [pc |-> "idle"]
  /\ document = <<>>
  /\ upload_tasks = {}
  /\ threads = <<>>

\* lines 26-56: a renderer made with the default theme name; no call yet
NewRenderer ==
  /\ theme_name = <<"m", "i", "n", "i", "m", "a", "l", "i", "s", "t", "_",
                   "w", "h", "i", "t", "e">>
  /\ available = <<>>
  /\ md = <<>>
  /\ markdown_text = <<>>
  /\ processed_text = <<>>

Init ==
  /\ doc = <<Elem("body")>>
  /\ pc = "parsing"
  /\ parsed = <<>>
  /\ calls = <<>>
  /\ wraps = <<>>
  /\ raised = FALSE
  /\ forPreview = FALSE
  /\ mode = "light"
  /\ theme = ThemeBare
  /\ output = <<>>
  /\ NewRenderer
  /\ AppStart

FeedList ==
  /\ pc = "parsing"
  /\ Len(doc) <= MaxNodes
  /\ \E p \in RightPath(doc) : \E node \in ListContent(doc[p].tag) :
       doc' = AddNode(doc, p, node)
  /\ UNCHANGED <<pc, parsed, calls, wraps, raised, forPreview, mode, theme, output>>
  /\ UNCHANGED callVars
  /\ UNCHANGED appVars

\* render, step 4 (line 104): the restructurer with the behaviour of the
\* released BeautifulSoup versions on a decomposed entry of the scan
ProcessLists ==
  /\ pc = "parsing"
  /\ LET S == _process_lists(doc, "raise") IN
       /\ doc' = S.doc
       /\ calls' = S.calls
       /\ wraps' = S.wraps
       /\ raised' = S.raised
       /\ pc' = IF S.raised THEN "raised" ELSE "lists"
  /\ parsed' = doc
  /\ UNCHANGED <<forPreview, mode, theme, output>>
  /\ UNCHANGED callVars
  /\ UNCHANGED appVars

\* the same step where the scan meets a decomposed entry and passes it over
ProcessListsStaleSkipped ==
  /\ pc = "parsing"
  /\ _process_lists(doc, "raise").raised
  /\ LET S == _process_lists(doc, "skip") IN
       /\ doc' = S.doc
       /\ calls' = S.calls
       /\ wraps' = S.wraps
       /\ raised' = S.raised
       /\ pc' = "lists"
  /\ parsed' = doc
  /\ UNCHANGED <<forPreview, mode, theme, output>>
  /\ UNCHANGED callVars
  /\ UNCHANGED appVars

Next == FeedList \/ ProcessLists \/ ProcessListsStaleSkipped

Spec == Init /\ [][Next]_vars

(***************************************************************************)
(* More tree operations, used by the later stages.                         *)
(***************************************************************************)
\* PageElement.replace_with: new takes the place of old in old's parent
ReplaceWith(d, old, new) ==
  LET d1 == Extract(d, new)
      p == ParentOf(d1, old)
      i == IndexOf(d1[p].kids, old)
  IN [d1 EXCEPT ![p].kids = [@ EXCEPT ![i] = new]]

\* PageElement.wrap: wrapper takes the place of n and n becomes its child
Wrap(d, n, wrapper) == AppendChild(ReplaceWith(d, n, wrapper), wrapper, n)

\* tag.get(key, default)
GetAttr(d, n, key, default) ==
  IF key \in DOMAIN d[n].attrs THEN d[n].attrs[key] ELSE default

\* dict.get(key, default)
ThemeGet(th, key, default) == IF key \in DOMAIN th THEN Text(th[key]) ELSE default

\* f"{a}; {b}".strip()
JoinStyle(a, b) == IF b = "" THEN a \o ";" ELSE a \o "; " \o b

(***************************************************************************)
(* The theme styler: MarkdownRenderer._apply_theme_styles.                 *)
(***************************************************************************)
\* lines 204-209
BodyTextColor(th, m) ==
  IF m = "light" THEN "#333333" ELSE ThemeGet(th, "body_text_color", "#f0f0f0")

\* lines 211-212
BodyStyle(th, m) ==
  JoinStyle("background-color: #ffffff !important; color: " \o BodyTextColor(th, m),
            ThemeGet(th, "body", ""))

\* lines 215-220: all body children move into one new wrapper <div>
WrapBody(d, th) ==
  IF "wrapper" \in DOMAIN th
  THEN LET d1 == SetAttr(NewTag(d, "div"), Len(d) + 1, "style", Text(th["wrapper"]))
       IN AppendChild(AppendAll(d1, Len(d) + 1, d1[Body].kids), Body, Len(d) + 1)
  ELSE d

\* line 224: theme keys that are not applied as tag styles
NotTagKeys == {"body", "wrapper", "section", "ul", "ol", "li", "img", "pre", "code"}

\* lines 228-232: the style one element of a themed tag gets
TagStyle(th, m, style, existing_style) ==
  IF Contains(Lower(style), <<"c", "o", "l", "o", "r", ":">>)
  THEN JoinStyle(Text(style), existing_style)
  ELSE JoinStyle("color: " \o BodyTextColor(th, m) \o "; " \o Text(style), existing_style)

\* lines 223-232, element by element in document order
RECURSIVE StyleTags(_, _, _, _)
StyleTags(d, th, m, elems) ==
  IF elems = <<>> THEN d
  ELSE LET e == Head(elems) IN
       Then(IF d[e].tag \in (DOMAIN th) \ NotTagKeys
            THEN SetAttr(d, e, "style",
                         TagStyle(th, m, th[d[e].tag], GetAttr(d, e, "style", "")))
            ELSE d,
            LAMBDA d1 : StyleTags(d1, th, m, Tail(elems)))

\* lines 234-238
RECURSIVE StyleImages(_, _, _)
StyleImages(d, th, imgs) ==
  IF imgs = <<>> \/ "img" \notin DOMAIN th THEN d
  ELSE Then(SetAttr(d, Head(imgs), "style",
                    JoinStyle(Text(th["img"]), GetAttr(d, Head(imgs), "style", ""))),
            LAMBDA d1 : StyleImages(d1, th, Tail(imgs)))

\* lines 242-246: each element child that is no container gets its own <section>
RECURSIVE WrapInSections(_, _, _)
WrapInSections(d, th, children) ==
  IF children = <<>> THEN d
  ELSE LET child == Head(children) IN
       Then(IF IsTag(d, child)
               /\ d[child].tag \notin {"section", "div", "mp-common-profile"}
            THEN Wrap(SetAttr(NewTag(d, "section"), Len(d) + 1, "style", Text(th["section"])),
                      child, Len(d) + 1)
            ELSE d,
            LAMBDA d1 : WrapInSections(d1, th, Tail(children)))

\* lines 240-246
SectionBlocks(d, th) ==
  LET divs == FindAll(d, Body, {"div"})
      hasContainer == "wrapper" \notin DOMAIN th \/ divs # <<>>
      content_container == IF "wrapper" \in DOMAIN th THEN Head(divs) ELSE Body
  IN IF "section" \in DOMAIN th /\ hasContainer
     THEN WrapInSections(d, th, d[content_container].kids)
     ELSE d

apply_theme_styles(d, th, m) ==
  LET d1 == SetAttr(d, Body, "style", BodyStyle(th, m))
      d2 == WrapBody(d1, th)
      d3 == StyleTags(d2, th, m, AllTags(d2, Body))
      d4 == StyleImages(d3, th, FindAll(d3, Body, {"img"}))
  IN SectionBlocks(d4, th)

(***************************************************************************)
(* The code block decorator: _apply_mac_style_to_code_blocks.              *)
(***************************************************************************)
colors == <<"#ff5f56", "#ffbd2e", "#27c93f">>

DotStyle(color) ==
  "height: 12px; width: 12px; background-color: " \o color
    \o "; border-radius: 50%; display: inline-block; margin-right: 8px;"

\* lines 267-274: one <span> dot per colour, appended to the title bar
RECURSIVE AddDots(_, _, _)
AddDots(d, title_bar, cs) ==
  IF cs = <<>> THEN d
  ELSE Then(AppendChild(SetAttr(NewTag(d, "span"), Len(d) + 1, "style", DotStyle(Head(cs))),
                        title_bar, Len(d) + 1),
            LAMBDA d1 : AddDots(d1, title_bar, Tail(cs)))

\* lines 254-291 for one <pre>
DecoratePre(d, pre_tag) ==
  LET container == Len(d) + 1
      title_bar == Len(d) + 2
      d1 == SetAttr(NewTag(d, "div"), container, "style",
              "background: #1E1E1E; border-radius: 5px; box-shadow: rgba(0, 0, 0, 0.55) 0px 2px 10px; margin-top: 20px; margin-bottom: 20px; overflow: hidden;")
      d2 == SetAttr(NewTag(d1, "div"), title_bar, "style",
              "height: 30px; background-color: #1E1E1E; display: flex; align-items: center; padding-left: 10px;")
      d3 == AddDots(d2, title_bar, colors)
      content_area == Len(d3) + 1
      d4 == SetAttr(NewTag(d3, "div"), content_area, "style",
              "padding: 16px; overflow-x: auto; color: #DCDCDC; font-family: Operator Mono, Consolas, Monaco, Menlo, monospace; font-size: 14px; line-height: 1.5;")
      d5 == ReplaceWith(d4, pre_tag, container)
      d6 == SetAttr(d5, pre_tag, "style", "overflow-x: auto; background: #1E1E1E; padding: 0; margin: 0;")
      codes == FindAll(d6, pre_tag, {"code"})
      d7 == IF codes # <<>> THEN SetAttr(d6, Head(codes), "style",
              "font-family: inherit; font-size: inherit;") ELSE d6
      d8 == AppendChild(d7, content_area, pre_tag)
  IN AppendChild(AppendChild(d8, container, title_bar), container, content_area)

RECURSIVE DecorateAll(_, _)
DecorateAll(d, pres) ==
  IF pres = <<>> THEN d
  ELSE Then(DecoratePre(d, Head(pres)), LAMBDA d1 : DecorateAll(d1, Tail(pres)))

apply_mac_style_to_code_blocks(d) == DecorateAll(d, FindAll(d, Body, {"pre"}))

(***************************************************************************)
(* The preview card: _transform_wechat_tags.                               *)
(***************************************************************************)
\* the default nickname and the description line of the card
DefaultNickname == <<"G", "Z", "H">>

\* a new <div> holding one string, with a style (lines 153-158, 162-164)
TextDiv(d, s, style) ==
  LET d1 == NewString(NewTag(d, "div"), s)
  IN SetAttr([d1 EXCEPT ![Len(d) + 1].kids = <<Len(d) + 2>>], Len(d) + 1, "style", style)

\* lines 128-169 for one <mp-common-profile>
TransformProfile(d, profile) ==
  LET nickname == GetAttr(d, profile, "data-nickname", DefaultNickname)
      headimg == GetAttr(d, profile, "data-headimg", "")
      card_div == Len(d) + 1
      d1 == SetAttr(NewTag(d, "div"), card_div, "style",
              "display: flex; align-items: center; padding: 12px; border: 1px solid #EAEAEA; background-color: #FAFAFA; border-radius: 4px; margin: 20px 0; max-width: 100%; box-sizing: border-box;")
      d2 == IF headimg # ""
            THEN LET img_tag == Len(d1) + 1
                     e == SetAttr(SetAttr(NewTag(d1, "img"), img_tag, "src", headimg),
                                  img_tag, "style",
                                          "width: 50px; height: 50px; border-radius: 50%; margin-right: 12px; object-fit: cover; flex-shrink: 0;")
                 IN AppendChild(e, card_div, img_tag)
            ELSE d1
      info_div == Len(d2) + 1
      d3 == SetAttr(NewTag(d2, "div"), info_div, "style", "flex: 1; min-width: 0;")
      name_div == Len(d3) + 1
      d4 == AppendChild(TextDiv(d3, nickname,
              "font-size: 16px; font-weight: bold; color: #333; margin-bottom: 4px; white-space: nowrap; overflow: hidden; text-overflow: ellipsis;"), info_div, name_div)
      desc_div == Len(d4) + 1
      d5 == AppendChild(TextDiv(d4, DefaultNickname, "font-size: 12px; color: #999;"), info_div, desc_div)
  IN ReplaceWith(AppendChild(d5, card_div, info_div), profile, card_div)

RECURSIVE TransformAll(_, _)
TransformAll(d, profiles) ==
  IF profiles = <<>> THEN d
  ELSE Then(TransformProfile(d, Head(profiles)),
            LAMBDA d1 : TransformAll(d1, Tail(profiles)))

transform_wechat_tags(d) == TransformAll(d, FindAll(d, Body, {"mp-common-profile"}))

(***************************************************************************)
(* The sanitizing filter: _filter_unsupported_elements.                    *)
(***************************************************************************)
\* a removal that forgets <style>
RemovedTagsScriptOnly == {"script"}

\* line 345: the elements removed with their subtrees
RemovedTags == {"script", "style"}

\* lines 351-356: the elements whose attributes are left alone
ExemptTags == {"mp-common-profile", "html", "body", "head"}

\* an allow-list that lets id through
allowed_attrs_with_id ==
  {"style", "src", "href", "alt", "title", "width", "height",
   "data-src", "data-type", "data-w", "data-h", "class", "id"}

\* lines 358-362
allowed_attrs ==
  {"style", "src", "href", "alt", "title", "width", "height",
   "data-src", "data-type", "data-w", "data-h", "class"}

\* lines 345-346, over the snapshot soup([...]) returns
RECURSIVE DecomposeAll(_, _)
DecomposeAll(d, ns) ==
  IF ns = <<>> THEN d
  ELSE Then(Decompose(d, Head(ns)), LAMBDA d1 : DecomposeAll(d1, Tail(ns)))

\* a loop that deletes one attribute outside the allow-list and stops
KeepAllowedButOne(d, tag) ==
  LET others == (DOMAIN d[tag].attrs) \ allowed_attrs IN
    IF others = {} THEN d
    ELSE [d EXCEPT ![tag].attrs =
            [k \in (DOMAIN @) \ {CHOOSE a \in others : TRUE} |-> @[k]]]

\* lines 364-367 for one element
KeepAllowed(d, tag) ==
  [d EXCEPT ![tag].attrs = [k \in (DOMAIN @) \cap allowed_attrs |-> @[k]]]

\* lines 349-367, over the snapshot find_all(True) returns
RECURSIVE FilterAttrs(_, _)
FilterAttrs(d, tags) ==
  IF tags = <<>> THEN d
  ELSE Then(IF d[Head(tags)].tag \in ExemptTags THEN d ELSE KeepAllowed(d, Head(tags)),
            LAMBDA d1 : FilterAttrs(d1, Tail(tags)))

filter_unsupported_elements(d) ==
  LET d1 == DecomposeAll(d, FindAll(d, Body, RemovedTags))
  IN FilterAttrs(d1, AllTags(d1, Body))

(***************************************************************************)
(* Step 8 (line 120): doc.body.decode_contents().  The returned markup     *)
(* holds the nodes below <body>, not <body> itself; what is kept of it is  *)
(* the element list in document order, each with its name and attributes.  *)
(***************************************************************************)
RECURSIVE ElementsOf(_, _)
ElementsOf(d, ns) ==
  IF ns = <<>> THEN <<>>
  ELSE <<[tag |-> d[Head(ns)].tag, attrs |-> d[Head(ns)].attrs]>> \o ElementsOf(d, Tail(ns))

decode_contents(d, n) == ElementsOf(d, AllTags(d, n))

(***************************************************************************)
(* The whole of render.  The documents fed to it mix Markdown output with  *)
(* embedded raw HTML.                                                      *)
(***************************************************************************)
RawAttrs == ("id" :> "a") @@ ("class" :> "c") @@ ("onclick" :> "f()")

RawElem(t) == MkNode(t, RawAttrs, <<>>, <<>>)

RawImg == MkNode("img", ("src" :> "u") @@ ("onerror" :> "f()"), <<>>, <<>>)

ProfileCard ==
  MkNode("mp-common-profile",
         ("data-pluginname" :> "mpprofile") @@ ("data-id" :> "gh") @@ ("data-headimg" :> "u")
           @@ ("data-nickname" :> <<"n">>),
         <<>>, <<>>)

ProfileBare == MkNode("mp-common-profile", ("data-id" :> "gh"), <<>>, <<>>)

CodeNode == MkNode("code", ("class" :> "language-py") @@ ("data-lang" :> "py"), <<>>, <<>>)

\* what the rendered documents may hold below an element
RenderContent(parentTag) ==
  CASE parentTag = "body" ->
         {RawElem("p"), RawElem("div"), Elem("ul"), Elem("pre"), Elem("script"),
          ProfileCard, ProfileBare}
    [] parentTag = "p" -> {Visible, RawImg}
    [] parentTag = "div" -> {Elem("script"), Elem("style"), RawElem("p")}
    [] parentTag = "ul" -> {RawElem("li")}
    [] parentTag = "li" -> {Visible, Elem("ul"), ProfileBare}
    [] parentTag = "pre" -> {CodeNode, Elem("pre")}
    [] parentTag = "code" -> {Visible}
    [] parentTag = "mp-common-profile" -> {RawElem("span")}
    [] parentTag \in {"script", "style"} -> {Visible}
    [] OTHER -> {}

\* render is entered with a mode, a for_preview flag and the theme in force
InitRender ==
  /\ doc = <<Elem("body")>>
  /\ pc = "parsing"
  /\ parsed = <<>>
  /\ calls = <<>>
  /\ wraps = <<>>
  /\ raised = FALSE
  /\ forPreview \in BOOLEAN
  /\ mode \in {"light", "dark"}
  /\ theme \in Themes
  /\ output = <<>>
  /\ NewRenderer
  /\ AppStart

FeedRender ==
  /\ pc = "parsing"
  /\ Len(doc) <= MaxRenderNodes
  /\ \E p \in RightPath(doc) : \E node \in RenderContent(doc[p].tag) :
       doc' = AddNode(doc, p, node)
  /\ UNCHANGED <<pc, parsed, calls, wraps, raised, forPreview, mode, theme, output>>
  /\ UNCHANGED callVars
  /\ UNCHANGED appVars

\* step 5 (line 107)
ApplyThemeStyles ==
  /\ pc = "lists"
  /\ doc' = apply_theme_styles(doc, theme, mode)
  /\ pc' = "themed"
  /\ UNCHANGED <<parsed, calls, wraps, raised, forPreview, mode, theme, output>>
  /\ UNCHANGED callVars
  /\ UNCHANGED appVars

\* step 6 (line 110)
ApplyMacStyle ==
  /\ pc = "themed"
  /\ doc' = apply_mac_style_to_code_blocks(doc)
  /\ pc' = "decorated"
  /\ UNCHANGED <<parsed, calls, wraps, raised, forPreview, mode, theme, output>>
  /\ UNCHANGED callVars
  /\ UNCHANGED appVars

\* step 6.5 (lines 113-114), preview
TransformWechatTags ==
  /\ pc = "decorated"
  /\ forPreview
  /\ doc' = transform_wechat_tags(doc)
  /\ pc' = "transformed"
  /\ UNCHANGED <<parsed, calls, wraps, raised, forPreview, mode, theme, output>>
  /\ UNCHANGED callVars
  /\ UNCHANGED appVars

\* step 6.5 (line 113), publishing: the tags are left as they are
KeepWechatTags ==
  /\ pc = "decorated"
  /\ ~forPreview
  /\ pc' = "transformed"
  /\ UNCHANGED <<doc, parsed, calls, wraps, raised, forPreview, mode, theme, output>>
  /\ UNCHANGED callVars
  /\ UNCHANGED appVars

\* steps 7 and 8 (lines 117-120)
FilterAndReturn ==
  /\ pc = "transformed"
  /\ doc' = filter_unsupported_elements(doc)
  /\ output' = decode_contents(filter_unsupported_elements(doc), Body)
  /\ pc' = "returned"
  /\ UNCHANGED <<parsed, calls, wraps, raised, forPreview, mode, theme>>
  /\ UNCHANGED callVars
  /\ UNCHANGED appVars

NextRender ==
  \/ FeedRender
  \/ ProcessLists
  \/ ProcessListsStaleSkipped
  \/ ApplyThemeStyles
  \/ ApplyMacStyle
  \/ TransformWechatTags
  \/ KeepWechatTags
  \/ FilterAndReturn

SpecRender == InitRender /\ [][NextRender]_vars

(***************************************************************************)
(* The sanitizing filter on its own: _filter_unsupported_elements applied  *)
(* to a tree, and applied once more to the tree it left.  parsed keeps the *)
(* tree the first application started from, output the elements it left.   *)
(***************************************************************************)
Sanitize ==
  /\ pc = "parsing"
  /\ doc' = filter_unsupported_elements(doc)
  /\ output' = decode_contents(filter_unsupported_elements(doc), Body)
  /\ parsed' = doc
  /\ pc' = "sanitized"
  /\ UNCHANGED <<calls, wraps, raised, forPreview, mode, theme>>
  /\ UNCHANGED callVars
  /\ UNCHANGED appVars

SanitizeAgain ==
  /\ pc = "sanitized"
  /\ doc' = filter_unsupported_elements(doc)
  /\ pc' = "resanitized"
  /\ UNCHANGED <<parsed, calls, wraps, raised, forPreview, mode, theme, output>>
  /\ UNCHANGED callVars
  /\ UNCHANGED appVars

NextSanitize == FeedRender \/ Sanitize \/ SanitizeAgain

SpecSanitize == Init /\ [][NextSanitize]_vars

(***************************************************************************)
(* The preprocessor: _preprocess_markdown_text.  The substitutions of      *)
(* lines 176-183 are re.sub calls: the text is scanned from the left, a    *)
(* match is replaced and the scan goes on behind it.  "." is any character *)
(* but the newline, \s is a space character.                               *)
(***************************************************************************)
\* s.startswith(prefix)
StartsWith(s, prefix) == Len(s) >= Len(prefix) /\ SubSeq(s, 1, Len(prefix)) = prefix

\* str.split('\n')
RECURSIVE SplitLines(_)
SplitLines(cs) ==
  IF \E i \in DOMAIN cs : cs[i] = "\n"
  THEN LET i == CHOOSE i \in DOMAIN cs : cs[i] = "\n" /\ \A j \in 1..(i - 1) : cs[j] # "\n"
       IN <<SubSeq(cs, 1, i - 1)>> \o SplitLines(SubSeq(cs, i + 1, Len(cs)))
  ELSE <<cs>>

\* '\n'.join(lines)
RECURSIVE JoinLines(_)
JoinLines(lines) ==
  IF lines = <<>> THEN <<>>
  ELSE IF Len(lines) = 1 THEN lines[1]
  ELSE Head(lines) \o <<"\n">> \o JoinLines(Tail(lines))

\* a fence state that no line switches
in_code_block_never_toggled(in_code_block, line) == in_code_block

\* lines 190-191: in_code_block once the line has been looked at
in_code_block_after(in_code_block, line) ==
  IF StartsWith(Strip(line), <<"BACKTICK", "BACKTICK", "BACKTICK">>) THEN ~in_code_block ELSE in_code_block

\* lines 189-196
RECURSIVE new_lines(_, _)
new_lines(lines, in_code_block) ==
  IF lines = <<>> THEN <<>>
  ELSE LET line == Head(lines)
           inside == in_code_block_after(in_code_block, line)
       IN <<IF ~inside /\ StartsWith(line, <<" ", " ", " ", " ">>) /\ Strip(line) # <<>>
            THEN SubSeq(line, 5, Len(line))
            ELSE line>>
          \o new_lines(Tail(lines), inside)

\* the first position from..Len(s) holding character c with no newline
\* before it, 0 when there is none
FirstOnLine(s, from, c) ==
  LET hits == {i \in from..Len(s) :
                 s[i] = c /\ \A j \in from..(i - 1) : s[j] # "\n" /\ s[j] # c}
  IN IF hits = {} THEN 0 ELSE CHOOSE i \in hits : TRUE

\* the first position from..Len(s) that holds neither a space nor a tab
\* (Len(s) + 1 when there is none): where [ \t]* ends
SkipBlanks(s, from) ==
  LET rest == {i \in from..Len(s) : s[i] \notin {" ", "\t"}}
  IN IF rest = {} THEN Len(s) + 1 ELSE CHOOSE i \in rest : \A j \in rest : i <= j

DigitChars == {"0", "1", "2", "3", "4", "5", "6", "7", "8", "9"}

Bullets == {"-", "*", "+"}

\* [\-\*\+]\s at position i: the position of the \s character, else 0
BulletAt(s, i) ==
  IF i + 1 <= Len(s) /\ s[i] \in Bullets /\ IsSpace(s[i + 1]) THEN i + 1 ELSE 0

\* \d+\.\s at position i: the position of the \s character, else 0
NumberAt(s, i) ==
  LET rest == {k \in i..Len(s) : s[k] \notin DigitChars}
      dot == IF rest = {} THEN Len(s) + 1 ELSE CHOOSE k \in rest : \A j \in rest : k <= j
  IN IF dot > i /\ dot + 1 <= Len(s) /\ s[dot] = "." /\ IsSpace(s[dot + 1])
     THEN dot + 1 ELSE 0

\* rule 1 (line 176), <!?(\[.*?\]\(.*?\)) at the head of s: the positions
\* of the "[" and of the ")" of group 1, <<0, 0>> without a match
EscapedLinkAt(s) ==
  IF s = <<>> \/ Head(s) # "<" THEN <<0, 0>>
  ELSE LET open == IF Len(s) >= 3 /\ s[2] = "!" /\ s[3] = "[" THEN 3
                   ELSE IF Len(s) >= 2 /\ s[2] = "[" THEN 2 ELSE 0
           mids == IF open = 0 THEN {}
                   ELSE {j \in (open + 1)..(Len(s) - 1) :
                           /\ s[j] = "]" /\ s[j + 1] = "("
                           /\ \A k \in (open + 1)..(j - 1) :
                                s[k] # "\n" /\ ~(s[k] = "]" /\ s[k + 1] = "(")}
           mid == IF mids = {} THEN 0 ELSE CHOOSE j \in mids : TRUE
           close == IF mid = 0 THEN 0 ELSE FirstOnLine(s, mid + 2, ")")
       IN IF close = 0 THEN <<0, 0>> ELSE <<open, close>>

RECURSIVE Rule1(_)
Rule1(s) ==
  IF s = <<>> THEN s
  ELSE Bind(EscapedLinkAt(s), LAMBDA m :
         IF m[2] = 0 THEN <<Head(s)>> \o Rule1(Tail(s))
         ELSE SubSeq(s, m[1], m[2]) \o Rule1(SubSeq(s, m[2] + 1, Len(s))))

\* rule 2 (line 179), ([^\n])\n([ \t]*([\-\*\+]|\d+\.)\s) at the head of s:
\* the position of the closing \s, 0 without a match
ListStartAt(s) ==
  IF Len(s) < 2 \/ s[1] = "\n" \/ s[2] # "\n" THEN 0
  ELSE LET p == SkipBlanks(s, 3)
       IN IF BulletAt(s, p) # 0 THEN BulletAt(s, p) ELSE NumberAt(s, p)

RECURSIVE Rule2(_)
Rule2(s) ==
  IF s = <<>> THEN s
  ELSE Bind(ListStartAt(s), LAMBDA e :
         IF e = 0 THEN <<Head(s)>> \o Rule2(Tail(s))
         ELSE <<Head(s), "\n", "\n">> \o SubSeq(s, 3, e) \o Rule2(SubSeq(s, e + 1, Len(s))))

\* rule 3 (lines 182-183), ([ \t]*M\s.*\n)(?=[ \t]*N\s) at the head of s,
\* where MarkerAt is the marker M\s of the line and NextAt the marker N\s
\* of the line after it: the position of the \n of group 1, 0 without a
\* match.  The blanks before M change no result and are left to the scan.
ListChangeAt(s, MarkerAt(_, _), NextAt(_, _)) ==
  LET sp == MarkerAt(s, 1)
      nl == IF sp = 0 THEN 0 ELSE FirstOnLine(s, sp + 1, "\n")
  IN IF nl # 0 /\ NextAt(s, SkipBlanks(s, nl + 1)) # 0 THEN nl ELSE 0

\* line 182: a bullet line before a numbered line
RECURSIVE Rule3Bullet(_)
Rule3Bullet(s) ==
  IF s = <<>> THEN s
  ELSE Bind(ListChangeAt(s, BulletAt, NumberAt), LAMBDA e :
         IF e = 0 THEN <<Head(s)>> \o Rule3Bullet(Tail(s))
         ELSE SubSeq(s, 1, e) \o <<"\n">> \o Rule3Bullet(SubSeq(s, e + 1, Len(s))))

\* line 183: a numbered line before a bullet line
RECURSIVE Rule3Number(_)
Rule3Number(s) ==
  IF s = <<>> THEN s
  ELSE Bind(ListChangeAt(s, NumberAt, BulletAt), LAMBDA e :
         IF e = 0 THEN <<Head(s)>> \o Rule3Number(Tail(s))
         ELSE SubSeq(s, 1, e) \o <<"\n">> \o Rule3Number(SubSeq(s, e + 1, Len(s))))

\* lines 176-183: processed_text as line 186 finds it
ListRules(text) ==
  Bind(Rule1(text), LAMBDA t1 :
  Bind(Rule2(t1), LAMBDA t2 :
  Bind(Rule3Bullet(t2), LAMBDA t3 : Rule3Number(t3))))

\* lines 176-197
_preprocess_markdown_text(text) ==
  Bind(ListRules(text), LAMBDA t : JoinLines(new_lines(SplitLines(t), FALSE)))

\* the lines the texts are written from
Lines ==
  {<<>>, <<"x">>, <<" ", " ", " ", " ", "x">>, <<" ", " ", " ", "x">>,
   <<" ", " ", " ", " ", " ", "x">>, <<" ", " ", " ", " ">>,
   <<"BACKTICK", "BACKTICK", "BACKTICK">>, <<" ", " ", " ", " ", "BACKTICK", "BACKTICK", "BACKTICK">>}

MaxLines == 4

InitText ==
  /\ doc = <<Elem("body")>>
  /\ pc = "empty"
  /\ parsed = <<>>
  /\ calls = <<>>
  /\ wraps = <<>>
  /\ raised = FALSE
  /\ forPreview = FALSE
  /\ mode = "light"
  /\ theme = ThemeBare
  /\ output = <<>>
  /\ NewRenderer
  /\ AppStart

\* the caller's text grows by one line
FeedLine ==
  /\ pc \in {"empty", "text"}
  /\ pc = "empty" \/ Len(SplitLines(markdown_text)) < MaxLines
  /\ \E line \in Lines :
       markdown_text' = IF pc = "empty" THEN line ELSE markdown_text \o <<"\n">> \o line
  /\ pc' = "text"
  /\ UNCHANGED <<doc, parsed, calls, wraps, raised, forPreview, mode, theme, output>>
  /\ UNCHANGED <<theme_name, available, md, processed_text>>
  /\ UNCHANGED appVars

\* render, step 1 (line 92)
PreprocessText ==
  /\ pc \in {"empty", "text"}
  /\ processed_text' = _preprocess_markdown_text(markdown_text)
  /\ pc' = "preprocessed"
  /\ UNCHANGED <<doc, parsed, calls, wraps, raised, forPreview, mode, theme, output>>
  /\ UNCHANGED <<theme_name, available, md, markdown_text>>
  /\ UNCHANGED appVars

\* lines that rules 1-3 have something to match in: bullet and numbered
\* list items and an escaped link
ListLines ==
  {<<"-", " ", "x">>, <<"1", ".", " ", "x">>, <<"<", "[", "x", "]", "(", "x", ")">>}

\* the caller's text grows by one such line
FeedListLine ==
  /\ pc \in {"empty", "text"}
  /\ pc = "empty" \/ Len(SplitLines(markdown_text)) < MaxLines
  /\ \E line \in ListLines :
       markdown_text' = IF pc = "empty" THEN line ELSE markdown_text \o <<"\n">> \o line
  /\ pc' = "text"
  /\ UNCHANGED <<doc, parsed, calls, wraps, raised, forPreview, mode, theme, output>>
  /\ UNCHANGED <<theme_name, available, md, processed_text>>
  /\ UNCHANGED appVars

NextPreprocess == FeedLine \/ PreprocessText

NextPreprocessLists == FeedLine \/ FeedListLine \/ PreprocessText

SpecPreprocessLists == InitText /\ [][NextPreprocessLists]_vars

SpecPreprocess == InitText /\ [][NextPreprocess]_vars

(***************************************************************************)
(* The Markdown instance self.md (lines 34-56) is made once and used by    *)
(* every render (line 95); render never calls self.md.reset().  Of the     *)
(* state the instance keeps between convert calls the model has the        *)
(* footnote definitions, which the footnotes extension (line 37, and       *)
(* through extra, line 44) collects in an ordered dictionary that only     *)
(* reset() empties, and lists in a <div class="footnote"> at the end of    *)
(* every fragment while the dictionary is not empty.  The texts converted  *)
(* here are one-line blocks: a footnote definition "[^id]: text", a        *)
(* paragraph, or a block of raw HTML, which convert hands on as it is and  *)
(* which is written as one element of the text.                            *)
(***************************************************************************)
\* a raw HTML block: a list whose only item holds a list of one empty item
RawList == "<ul><li><ul><li></li></ul></li></ul>"

\* the parse of RawList as the last child of the body
AddRawList(d) ==
  AddNode(AddNode(AddNode(AddNode(d, Body, Elem("ul")),
                          Len(d) + 1, Elem("li")),
                  Len(d) + 2, Elem("ul")),
          Len(d) + 3, Elem("li"))

\* "[^id]: text": the position of the "]" that ends the id, 0 for other lines
DefEnd(line) ==
  IF StartsWith(line, <<"[", "^">>)
       /\ \E i \in 3..(Len(line) - 1) : line[i] = "]" /\ line[i + 1] = ":"
  THEN CHOOSE i \in 3..(Len(line) - 1) :
         /\ line[i] = "]" /\ line[i + 1] = ":"
         /\ \A j \in 3..(i - 1) : ~(line[j] = "]" /\ line[j + 1] = ":")
  ELSE 0

\* the ordered dictionary of footnotes after footnotes[id] = text
SetFootnote(store, id, text) ==
  IF \E i \in DOMAIN store : store[i].id = id
  THEN [store EXCEPT ![CHOOSE i \in DOMAIN store : store[i].id = id].text = text]
  ELSE Append(store, [id |-> id, text |-> text])

\* the blocks of the source in order: a definition goes into the store, any
\* other non-blank line becomes a <p> of the body; S is [doc, md]
RECURSIVE ParseBlocks(_, _)
ParseBlocks(S, lines) ==
  IF lines = <<>> THEN S
  ELSE Bind(Head(lines), LAMBDA line :
       Bind(DefEnd(line), LAMBDA e :
       Bind(IF Strip(line) = <<>> THEN S
            ELSE IF e # 0
            THEN [S EXCEPT !.md = SetFootnote(@, SubSeq(line, 3, e - 1),
                                    Strip(SubSeq(line, e + 2, Len(line))))]
            ELSE IF line = <<RawList>>
            THEN [S EXCEPT !.doc = AddRawList(@)]
            ELSE [S EXCEPT !.doc = AddNode(AddNode(@, Body, Elem("p")),
                                           Len(@) + 1, TextNode(Strip(line)))],
            LAMBDA S1 : ParseBlocks(S1, Tail(lines)))))

\* <li id="fn:id"><p>text <a class="footnote-backref">..</a></p></li> for
\* one footnote, as the last item of ol
FootnoteItem(d, ol, note) ==
  LET li == Len(d) + 1
      d1 == AddNode(d, ol, MkNode("li", ("id" :> "fn:" \o Text(note.id)), <<>>, <<>>))
      d2 == AddNode(d1, li, Elem("p"))
      d3 == AddNode(d2, li + 1, TextNode(note.text \o <<"NBSP">>))
      d4 == AddNode(d3, li + 1,
              MkNode("a", ("class" :> "footnote-backref")
                            @@ ("href" :> "#fnref:" \o Text(note.id)), <<>>, <<>>))
  IN AddNode(d4, li + 3, TextNode(<<"BACKREF">>))

\* one item per footnote of the store, in the order of the store
RECURSIVE FootnoteItems(_, _, _)
FootnoteItems(d, ol, store) ==
  IF store = <<>> THEN d
  ELSE Then(FootnoteItem(d, ol, Head(store)),
            LAMBDA d1 : FootnoteItems(d1, ol, Tail(store)))

\* <div class="footnote"><hr><ol>..</ol></div> at the end of the body
FootnotesDiv(d, store) ==
  Then(AddNode(AddNode(AddNode(d, Body, MkNode("div", ("class" :> "footnote"), <<>>, <<>>)),
                       Len(d) + 1, Elem("hr")),
               Len(d) + 1, Elem("ol")),
       LAMBDA d1 : FootnoteItems(d1, Len(d1), store))

\* self.md.convert(source) and the parse of the fragment (lines 95-101):
\* the tree and the footnotes the instance holds afterwards
convert(store, source) ==
  IF Strip(source) = <<>> THEN [doc |-> <<Elem("body")>>, md |-> store]
  ELSE Bind(ParseBlocks([doc |-> <<Elem("body")>>, md |-> store], SplitLines(source)),
            LAMBDA S : IF S.md = <<>> THEN S
                       ELSE Bind(S.doc, LAMBDA d : [S EXCEPT !.doc = FootnotesDiv(d, S.md)]))

(***************************************************************************)
(* The theme registry and the renderer object across calls.                *)
(***************************************************************************)
\* the THEMES dictionary (lines 9-20), in the order of its keys
THEMES ==
  <<[name |-> <<"d", "e", "f", "a", "u", "l", "t">>, theme |-> ThemeBare],
    [name |-> <<"m", "i", "n", "i", "m", "a", "l", "i", "s", "t", "_",
                "w", "h", "i", "t", "e">>, theme |-> ThemeBare],
    [name |-> <<"b", "l", "u", "e">>, theme |-> ThemeRich]>>

\* a lookup under the name as it was given
theme_key_as_given(theme_name_arg) == theme_name_arg

\* line 75: the key looked up
theme_key(theme_name_arg) == Lower(theme_name_arg)

\* lines 75-80: THEMES.get(key); a missing or empty dictionary is replaced
\* by MINIMALIST_WHITE
_load_theme(theme_name_arg) ==
  LET key == theme_key(theme_name_arg)
      found == {i \in DOMAIN THEMES : THEMES[i].name = key /\ DOMAIN THEMES[i].theme # {}}
  IN IF found # {} THEN THEMES[CHOOSE i \in found : TRUE].theme ELSE ThemeBare

\* line 68: list(THEMES.keys())
RECURSIVE KeysOf(_)
KeysOf(entries) ==
  IF entries = <<>> THEN <<>> ELSE <<Head(entries).name>> \o KeysOf(Tail(entries))

get_available_themes == KeysOf(THEMES)

\* the theme names callers pass
RequestedNames ==
  {<<"b", "l", "u", "e">>, <<"B", "l", "U", "E">>, <<"n", "o", "p", "e">>,
   <<"d", "e", "f", "a", "u", "l", "t">>}

\* the texts callers pass
CallTexts ==
  {<<" ">>, <<"x">>, <<"x", "\n", "\n", "[", "^", "a", "]", ":", " ", "n">>,
   <<"[", "^", "b", "]", ":", " ", "m">>}

\* lines 104-120 on the parsed tree: the stages in their order
Stages(d, th, m, for_preview) ==
  Bind(_process_lists(d, "raise"), LAMBDA S :
    IF S.raised THEN S @@ [output |-> <<>>]
    ELSE Then(apply_theme_styles(S.doc, th, m), LAMBDA d1 :
         Then(apply_mac_style_to_code_blocks(d1), LAMBDA d2 :
         Then(IF for_preview THEN transform_wechat_tags(d2) ELSE d2, LAMBDA d3 :
         Then(filter_unsupported_elements(d3), LAMBDA d4 :
           [doc |-> d4, calls |-> S.calls, wraps |-> S.wraps, raised |-> FALSE,
            output |-> decode_contents(d4, Body)])))))

\* lines 92-120: one call of render on the renderer whose Markdown instance
\* holds the footnotes store
render(store, th, text, m, for_preview) ==
  Bind(_preprocess_markdown_text(text), LAMBDA processed :
    Bind(convert(store, processed), LAMBDA C :
      Bind(Stages(C.doc, th, m, for_preview), LAMBDA R :
        [processed |-> processed, md |-> C.md, parsed |-> C.doc] @@ R)))

\* MarkdownRenderer(theme_name) (lines 26-56)
InitCalls ==
  /\ doc = <<Elem("body")>>
  /\ pc = "idle"
  /\ parsed = <<>>
  /\ calls = <<>>
  /\ wraps = <<>>
  /\ raised = FALSE
  /\ forPreview = FALSE
  /\ mode = "light"
  /\ output = <<>>
  /\ theme_name \in RequestedNames
  /\ theme = _load_theme(theme_name)
  /\ available = <<>>
  /\ md = <<>>
  /\ markdown_text = <<>>
  /\ processed_text = <<>>
  /\ AppStart

\* set_theme (lines 58-62)
SetTheme ==
  /\ \E name \in RequestedNames :
       /\ theme_name' = name
       /\ theme' = _load_theme(name)
  /\ UNCHANGED <<doc, pc, parsed, calls, wraps, raised, forPreview, mode, output>>
  /\ UNCHANGED <<available, md, markdown_text, processed_text>>
  /\ UNCHANGED appVars

\* get_available_themes (lines 64-68)
GetAvailableThemes ==
  /\ available' = get_available_themes
  /\ UNCHANGED <<doc, pc, parsed, calls, wraps, raised, forPreview, mode, theme, output>>
  /\ UNCHANGED <<theme_name, md, markdown_text, processed_text>>
  /\ UNCHANGED appVars

\* render (lines 82-120), the whole call
Render ==
  \E text \in CallTexts, m \in {"light", "dark"}, for_preview \in BOOLEAN :
    \E R \in {render(md, theme, text, m, for_preview)} :
      /\ markdown_text' = text
      /\ mode' = m
      /\ forPreview' = for_preview
      /\ processed_text' = R.processed
      /\ md' = R.md
      /\ parsed' = R.parsed
      /\ calls' = R.calls
      /\ wraps' = R.wraps
      /\ raised' = R.raised
      /\ doc' = R.doc
      /\ output' = IF R.raised THEN output ELSE R.output
      /\ pc' = IF R.raised THEN "raised" ELSE "returned"
      /\ UNCHANGED <<theme, theme_name, available>>
      /\ UNCHANGED appVars

NextCalls == SetTheme \/ GetAvailableThemes \/ Render

SpecCalls == InitCalls /\ [][NextCalls]_vars

(***************************************************************************)
(* The preview of the main window: MainWindow._update_preview              *)
(* (src/gui/main_window.py, lines 629-652) renders the current article     *)
(* with the window's one renderer and hands the HTML to the preview pane.  *)
(***************************************************************************)
\* the contents of the current article
PreviewTexts ==
  {<<"x">>, <<"[", "^", "b", "]", ":", " ", "m">>, <<RawList>>,
   <<RawList, "\n", "\n", "[", "^", "a", "]", ":", " ", "n">>}

\* the article's 'theme' entry
PreviewThemes == {<<"b", "l", "u", "e">>}

\* what template_manager.get_templates() returns
TemplateHeader == <<"h">>

TemplateFooter == <<"f">>

\* lines 642-647
full_markdown_content(use_template, markdown_content) ==
  IF use_template
  THEN TemplateHeader \o <<"\n", "\n">> \o markdown_content \o <<"\n", "\n">> \o TemplateFooter
  ELSE markdown_content

InitPreview == InitCalls

\* _update_preview without a current article (lines 633-635)
UpdatePreviewNoArticle ==
  /\ html_preview' = <<>>
  /\ UNCHANGED rendererVars
  /\ UNCHANGED <<windowVars, serviceVars>>

\* _update_preview (lines 637-652); an exception of render leaves the
\* handler before set_html_content
UpdatePreview ==
  \E markdown_content \in PreviewTexts, name \in PreviewThemes,
     current_mode \in {"light", "dark"}, use_template \in BOOLEAN :
    \E R \in {render(md, _load_theme(name),
                     full_markdown_content(use_template, markdown_content),
                     current_mode, TRUE)} :
      /\ theme_name' = name
      /\ theme' = _load_theme(name)
      /\ markdown_text' = full_markdown_content(use_template, markdown_content)
      /\ mode' = current_mode
      /\ forPreview' = TRUE
      /\ processed_text' = R.processed
      /\ md' = R.md
      /\ parsed' = R.parsed
      /\ calls' = R.calls
      /\ wraps' = R.wraps
      /\ raised' = R.raised
      /\ doc' = R.doc
      /\ output' = IF R.raised THEN output ELSE R.output
      /\ pc' = IF R.raised THEN "raised" ELSE "returned"
      /\ html_preview' = IF R.raised THEN html_preview ELSE R.output
      /\ UNCHANGED available
      /\ UNCHANGED <<windowVars, serviceVars>>

NextPreview == UpdatePreviewNoArticle \/ UpdatePreview

SpecPreview == InitPreview /\ [][NextPreview]_vars

(***************************************************************************)
(* The main window (src/gui/main_window.py): the article list, the editor  *)
(* and the crawl queue.  An article is [id, content]: id stands for the    *)
(* identity of the Python dictionary, content for its 'content' entry (its *)
(* 'title' is written by the same statements and parsed again from the     *)
(* content by _refresh_article_list).  A content is <<kind, n>>.  Indices  *)
(* count from 0 as in the source; -1 is "none".  The handlers run on the   *)
(* GUI thread, one at a time; QApplication.processEvents() is called where *)
(* a handler has finished its writes, so a handler run from inside it is a *)
(* handler run after it.  A handler is an operator on the record W of the  *)
(* window's fields.                                                        *)
(***************************************************************************)
MaxArticles == 3
MaxUrls == 2
MaxIds == 3

Urls == 1..MaxUrls

None == <<>>

Window ==
  [articles |-> articles, current_article_index |-> current_article_index,
   editor |-> editor, crawl_queue |-> crawl_queue, crawl_worker |-> crawl_worker,
   crawling_article_index |-> crawling_article_index, started |-> started,
   running |-> running]

SetWindow(W) ==
  /\ articles' = W.articles
  /\ current_article_index' = W.current_article_index
  /\ editor' = W.editor
  /\ crawl_queue' = W.crawl_queue
  /\ crawl_worker' = W.crawl_worker
  /\ crawling_article_index' = W.crawling_article_index
  /\ started' = W.started
  /\ running' = W.running

\* 0 <= index < len(self.articles)
ValidIndex(W, index) == 0 <= index /\ index < Len(W.articles)

\* lines 614-627
_update_current_article_content(W) ==
  IF ValidIndex(W, W.current_article_index)
  THEN [W EXCEPT !.articles[W.current_article_index + 1].content = W.editor]
  ELSE W

\* a window that leaves the editor as it is
_load_article_content_skipped(W, index) == W

\* lines 600-612
_load_article_content(W, index) ==
  IF ValidIndex(W, index) THEN [W EXCEPT !.editor = W.articles[index + 1].content] ELSE W

\* lines 581-599, the slot of currentRowChanged
_select_article(W, index) ==
  IF index = W.current_article_index THEN W
  ELSE Bind(IF W.current_article_index # -1 THEN _update_current_article_content(W) ELSE W,
            LAMBDA W1 : _load_article_content([W1 EXCEPT !.current_article_index = index], index))

\* a window that never takes its worker for active
crawl_worker_never_active(W) == FALSE

\* line 507: self.crawl_worker is not None
crawl_worker_active(W) == W.crawl_worker # None

\* lines 501-534.  self.articles[..] at line 516 raises IndexError when the
\* index the task holds is past the end of the list.  CrawlWorker(url,
\* system_prompt, self.crawler, self.llm_processor) at line 525 raises
\* TypeError with the constructor of src/core/workers.py, line 23, which
\* takes url and system_prompt only; constructed tells whether the worker
\* was made, as the window's code expects, or the call raised.  An
\* exception leaves the handler with the writes made so far.
_process_crawl_queue(W, constructed) ==
  IF crawl_worker_active(W) \/ W.crawl_queue = <<>> THEN W
  ELSE Bind(Head(W.crawl_queue), LAMBDA task :
       Bind([W EXCEPT !.crawl_queue = Tail(@),
                      !.crawling_article_index = task.article_index], LAMBDA W1 :
         IF ~ValidIndex(W1, task.article_index) THEN W1
         ELSE Bind([W1 EXCEPT !.articles[task.article_index + 1].content =
                                 <<"crawling", task.url>>], LAMBDA W2 :
              Bind(IF W2.current_article_index = task.article_index
                   THEN _load_article_content(W2, task.article_index) ELSE W2, LAMBDA W3 :
                IF constructed
                THEN [W3 EXCEPT !.crawl_worker = <<task.url>>,
                                !.started = Append(@, task.url),
                                !.running = @ \cup {task.url}]
                ELSE W3))))

\* lines 423-458
_crawl_article(W, url, id, constructed) ==
  Bind(_update_current_article_content(W), LAMBDA W1 :
  Bind([W1 EXCEPT !.articles = Append(@, [id |-> id, content |-> <<"queued", url>>]),
                  !.crawl_queue = Append(@, [url |-> url, article_index |-> Len(W1.articles)]),
                  !.current_article_index = Len(W1.articles)], LAMBDA W2 :
  Bind(_load_article_content(W2, W2.current_article_index), LAMBDA W3 :
    _process_crawl_queue(W3, constructed))))

\* lines 899-920
_on_crawl_progress(W) ==
  IF ~ValidIndex(W, W.crawling_article_index) THEN W
  ELSE Bind(<<"progress", IF W.crawl_worker # None THEN W.crawl_worker[1] ELSE 0>>, LAMBDA content :
       Bind([W EXCEPT !.articles[W.crawling_article_index + 1].content = content], LAMBDA W1 :
         IF W1.current_article_index = W1.crawling_article_index
         THEN [W1 EXCEPT !.editor = content] ELSE W1))

\* lines 956-961 and 994-999: the thread is quit and waited for, the worker
\* dropped
CleanUpCrawlWorker(W) ==
  [W EXCEPT !.running = @ \ {u \in Urls : W.crawl_worker = <<u>>},
            !.crawl_worker = None,
            !.crawling_article_index = -1]

\* lines 946-1003; result is the crawled text of the worker's URL, or the
\* error text, which the handler puts together with self.crawl_worker.url
_on_crawl_finished(W, success, result_url, constructed) ==
  IF ~ValidIndex(W, W.crawling_article_index)
  THEN _process_crawl_queue(CleanUpCrawlWorker(W), constructed)
  ELSE Bind(IF success THEN <<"result", result_url>>
            ELSE <<"failed", IF W.crawl_worker # None THEN W.crawl_worker[1] ELSE 0>>,
            LAMBDA content :
       Bind([W EXCEPT !.articles[W.crawling_article_index + 1].content = content], LAMBDA W1 :
       Bind(IF W1.current_article_index = W1.crawling_article_index
            THEN _load_article_content(W1, W1.crawling_article_index) ELSE W1, LAMBDA W2 :
         _process_crawl_queue(CleanUpCrawlWorker(W2), constructed))))

\* lines 403-421
_add_article(W, id) ==
  Bind(_update_current_article_content(W), LAMBDA W1 :
  Bind([W1 EXCEPT !.articles = Append(@, [id |-> id,
                                         content |-> <<"untitled", Len(W1.articles) + 1>>]),
                  !.current_article_index = Len(W1.articles)], LAMBDA W2 :
    _load_article_content(W2, W2.current_article_index)))

\* the list without the rows of a set
RECURSIVE WithoutRows(_, _, _)
WithoutRows(list, rows, row) ==
  IF list = <<>> THEN <<>>
  ELSE (IF row \in rows THEN <<>> ELSE <<Head(list)>>)
         \o WithoutRows(Tail(list), rows, row + 1)

\* lines 536-579, confirmed with "yes"; rows are the rows selected.  The
\* setCurrentRow of line 571 reaches _select_article with the index the
\* window already holds.
_remove_article(W, rows) ==
  Bind([W EXCEPT !.articles = WithoutRows(@, rows, 0)], LAMBDA W1 :
    IF W1.articles # <<>>
    THEN Bind(CHOOSE r \in rows : \A q \in rows : r <= q, LAMBDA first :
         Bind(IF first < Len(W1.articles) - 1 THEN first ELSE Len(W1.articles) - 1, LAMBDA index :
           _load_article_content([W1 EXCEPT !.current_article_index = index], index)))
    ELSE [W1 EXCEPT !.current_article_index = -1, !.editor = <<>>])

\* the list with the article of a row taken out and put in at another row
MoveRow(list, from, to) ==
  LET rest == WithoutRows(list, {from}, 0)
  IN SubSeq(rest, 1, to) \o <<list[from + 1]>> \o SubSeq(rest, to + 1, Len(rest))

\* lines 1089-1096
_move_article_up(W, row) ==
  IF row > 0
  THEN [W EXCEPT !.articles = MoveRow(@, row, row - 1), !.current_article_index = row - 1]
  ELSE W

\* lines 1098-1105
_move_article_down(W, row) ==
  IF row < Len(W.articles) - 1
  THEN [W EXCEPT !.articles = MoveRow(@, row, row + 1), !.current_article_index = row + 1]
  ELSE W

\* lines 1045-1058; setCurrentRow(row + 1) at line 1057 emits
\* currentRowChanged when the list widget's current row, which
\* _refresh_article_list has set to current_article_index, is another one
_duplicate_article(W, row, id) ==
  IF ValidIndex(W, row)
  THEN Bind([W EXCEPT !.articles =
                        SubSeq(@, 1, row + 1)
                          \o <<[id |-> id, content |-> W.articles[row + 1].content]>>
                          \o SubSeq(@, row + 2, Len(@))], LAMBDA W1 :
         _select_article(W1, row + 1))
  ELSE W

\* lines 1010-1043: the press that asks for the context menu of a row makes
\* the row the current one of the list widget (currentRowChanged, line 198)
\* before the menu is shown
_show_article_list_context_menu(W, row) == _select_article(W, row)

\* the renderer as the window makes it (line 95 of main_window.py)
RendererStart ==
  /\ doc = <<Elem("body")>>
  /\ pc = "idle"
  /\ parsed = <<>>
  /\ calls = <<>>
  /\ wraps = <<>>
  /\ raised = FALSE
  /\ forPreview = FALSE
  /\ mode = "light"
  /\ theme = ThemeBare
  /\ output = <<>>
  /\ NewRenderer

InitWindow == RendererStart /\ AppStart

\* what a handler leaves of the worker thread and of the record of queued
\* URLs: a thread that was started is about to fetch
AfterHandler(W) ==
  /\ SetWindow(W)
  /\ worker_pc' = IF W.started # started THEN "fetch" ELSE worker_pc
  /\ UNCHANGED exceptWindow

\* the "crawl" button with a URL not queued before
CrawlArticle ==
  /\ Len(articles) < MaxArticles
  /\ next_id <= MaxIds
  /\ \E url \in Urls \ {queued[i].url : i \in DOMAIN queued}, constructed \in BOOLEAN :
       /\ AfterHandler(_crawl_article(Window, url, next_id, constructed))
       /\ queued' = Append(queued, [url |-> url, id |-> next_id])
  /\ next_id' = next_id + 1
  /\ UNCHANGED signals

\* CrawlWorker.run up to the end of crawler.fetch (workers.py, lines 33-39)
CrawlWorkerFetch ==
  /\ worker_pc = "fetch"
  /\ \E fetched \in BOOLEAN :
       /\ signals' = signals \o <<[kind |-> "progress", url |-> crawl_worker[1], success |-> TRUE]>>
                       \o (IF fetched THEN <<>>
                           ELSE <<[kind |-> "progress", url |-> crawl_worker[1], success |-> FALSE],
                                  [kind |-> "finished", url |-> crawl_worker[1], success |-> FALSE]>>)
       /\ worker_pc' = IF fetched THEN "process" ELSE "idle"
  /\ UNCHANGED <<articles, current_article_index, editor, crawl_queue, crawl_worker,
                 crawling_article_index, started, running, queued, next_id>>
  /\ UNCHANGED exceptWindow

\* CrawlWorker.run from the LLM call on (workers.py, lines 41-65)
CrawlWorkerProcess ==
  /\ worker_pc = "process"
  /\ \E processed \in BOOLEAN :
       signals' = signals \o <<[kind |-> "progress", url |-> crawl_worker[1], success |-> TRUE],
                               [kind |-> "progress", url |-> crawl_worker[1], success |-> processed],
                               [kind |-> "finished", url |-> crawl_worker[1], success |-> processed]>>
  /\ worker_pc' = "idle"
  /\ UNCHANGED <<articles, current_article_index, editor, crawl_queue, crawl_worker,
                 crawling_article_index, started, running, queued, next_id>>
  /\ UNCHANGED exceptWindow

\* the GUI thread takes a progress signal
OnCrawlProgress ==
  /\ signals # <<>> /\ Head(signals).kind = "progress"
  /\ AfterHandler(_on_crawl_progress(Window))
  /\ signals' = Tail(signals)
  /\ UNCHANGED <<queued, next_id>>

\* the GUI thread takes a finished signal
OnCrawlFinished ==
  /\ signals # <<>> /\ Head(signals).kind = "finished"
  /\ \E constructed \in BOOLEAN :
       AfterHandler(_on_crawl_finished(Window, Head(signals).success, Head(signals).url,
                                       constructed))
  /\ signals' = Tail(signals)
  /\ UNCHANGED <<queued, next_id>>

\* the "add" button
AddArticle ==
  /\ Len(articles) < MaxArticles
  /\ next_id <= MaxIds
  /\ AfterHandler(_add_article(Window, next_id))
  /\ next_id' = next_id + 1
  /\ UNCHANGED <<signals, queued>>

\* the "remove" button or menu entry with some rows selected
RemoveArticle ==
  /\ \E rows \in SUBSET (0..(Len(articles) - 1)) :
       /\ rows # {}
       /\ AfterHandler(_remove_article(Window, rows))
  /\ UNCHANGED <<signals, queued, next_id>>

\* a click on another row of the list
SelectArticle ==
  /\ \E index \in 0..(Len(articles) - 1) :
       /\ index # current_article_index
       /\ AfterHandler(_select_article(Window, index))
  /\ UNCHANGED <<signals, queued, next_id>>

\* "move up" in the context menu of a row (enabled for row > 0)
MoveArticleUp ==
  /\ \E row \in 1..(Len(articles) - 1) :
       AfterHandler(_move_article_up(_show_article_list_context_menu(Window, row), row))
  /\ UNCHANGED <<signals, queued, next_id>>

\* "move down" in the context menu of a row (enabled above the last row)
MoveArticleDown ==
  /\ \E row \in 0..(Len(articles) - 2) :
       AfterHandler(_move_article_down(_show_article_list_context_menu(Window, row), row))
  /\ UNCHANGED <<signals, queued, next_id>>

\* "duplicate" in the context menu of a row
DuplicateArticle ==
  /\ Len(articles) < MaxArticles
  /\ next_id <= MaxIds
  /\ \E row \in 0..(Len(articles) - 1) :
       AfterHandler(_duplicate_article(_show_article_list_context_menu(Window, row), row, next_id))
  /\ next_id' = next_id + 1
  /\ UNCHANGED <<signals, queued>>

\* what the user types, and what the opened files hold
TypedTexts == {<<"typed", 1>>, <<"heading", 1>>}

FileTexts == {<<"file", 1>>, <<"heading", 2>>}

\* lines[0].startswith('# ') for the first line of a content
HasHeading(content) ==
  content[1] \in {"untitled", "heading", "renamed", "queued", "crawling", "progress", "failed"}

\* lines 674-709 with the files read; the articles get the identities id,
\* id + 1, ..
_open_document(W, contents, id) ==
  Bind([W EXCEPT !.articles =
                   @ \o [k \in DOMAIN contents |-> [id |-> id + k - 1, content |-> contents[k]]]],
       LAMBDA W1 :
         _load_article_content([W1 EXCEPT !.current_article_index = Len(W1.articles) - 1],
                               Len(W1.articles) - 1))

\* lines 1060-1087 with a new title given; setPlainText at line 1084 emits
\* textChanged, whose slot is _update_current_article_content
_rename_article_in_list(W, row) ==
  IF ValidIndex(W, row) /\ HasHeading(W.articles[row + 1].content)
  THEN Bind([W EXCEPT !.articles[row + 1].content = <<"renamed", @[2]>>], LAMBDA W1 :
         IF row = W1.current_article_index
         THEN _update_current_article_content([W1 EXCEPT !.editor = W1.articles[row + 1].content])
         ELSE W1)
  ELSE W

\* lines 372-381, which _clear_all_articles runs when confirmed
_init_articles(W) ==
  [W EXCEPT !.articles = <<>>, !.current_article_index = -1, !.editor = <<>>]

\* the user types into the editor of the current article: textChanged
\* (line 211) runs _update_current_article_content
EditText ==
  /\ ValidIndex(Window, current_article_index)
  /\ \E text \in TypedTexts :
       AfterHandler(_update_current_article_content([Window EXCEPT !.editor = text]))
  /\ UNCHANGED <<signals, queued, next_id>>

\* "open" with one or two files chosen
OpenDocument ==
  \E contents \in {<<a>> : a \in FileTexts} \cup {<<a, b>> : a \in FileTexts, b \in FileTexts} :
    /\ Len(articles) + Len(contents) <= MaxArticles
    /\ next_id + Len(contents) - 1 <= MaxIds
    /\ AfterHandler(_open_document(Window, contents, next_id))
    /\ next_id' = next_id + Len(contents)
    /\ UNCHANGED <<signals, queued>>

\* "rename" in the context menu of a row
RenameArticle ==
  /\ \E row \in 0..(Len(articles) - 1) :
       AfterHandler(_rename_article_in_list(_show_article_list_context_menu(Window, row), row))
  /\ UNCHANGED <<signals, queued, next_id>>

\* "clear all", confirmed (lines 654-672)
ClearAllArticles ==
  /\ articles # <<>>
  /\ AfterHandler(_init_articles(Window))
  /\ UNCHANGED <<signals, queued, next_id>>

NextArticles ==
  \/ AddArticle \/ OpenDocument \/ SelectArticle \/ RemoveArticle
  \/ DuplicateArticle \/ MoveArticleUp \/ MoveArticleDown
  \/ RenameArticle \/ ClearAllArticles \/ EditText

SpecArticles == InitWindow /\ [][NextArticles]_vars

NextCrawl ==
  \/ CrawlArticle \/ CrawlWorkerFetch \/ CrawlWorkerProcess
  \/ OnCrawlProgress \/ OnCrawlFinished
  \/ AddArticle \/ RemoveArticle \/ SelectArticle
  \/ MoveArticleUp \/ MoveArticleDown \/ DuplicateArticle

SpecCrawl == InitWindow /\ [][NextCrawl]_vars

\* the worker thread runs on and the GUI thread takes the signals sent to it
SpecCrawlFair ==
  /\ SpecCrawl
  /\ WF_vars(CrawlWorkerFetch) /\ WF_vars(CrawlWorkerProcess)
  /\ WF_vars(OnCrawlProgress) /\ WF_vars(OnCrawlFinished)

(***************************************************************************)
(* The WeChat client (wechat_api.py).  upload_image_for_content,           *)
(* add_permanent_material and create_draft share one shape: get a token,   *)
(* send the request, return the value or an error text, and after a        *)
(* RequestException whose text holds 40001, 42001 or 40014 fetch a new     *)
(* token and call themselves with retries - 1.                             *)
(***************************************************************************)
MaxRetries == 2

ApiMethods == {"upload_image_for_content", "add_permanent_material", "create_draft"}

Chars5(a, b, c, d, e) == <<a, b, c, d, e>>

TokenCodes == {Chars5("4","0","0","0","1"), Chars5("4","2","0","0","1"), Chars5("4","0","0","1","4")}

\* what the server, the network or the file system does with one attempt:
\* a reply with the field asked for; a reply without it and without
\* errcode; a reply with errcode and errmsg; a status that is not 2xx; no
\* connection; a file that cannot be opened (no request is sent)
ErrorReply(errcode, errmsg) == [kind |-> "errcode", errcode |-> errcode, errmsg |-> errmsg]

Replies ==
  {[kind |-> "ok"], [kind |-> "no_field"], [kind |-> "http_error"],
   [kind |-> "timeout"], [kind |-> "no_file"]}
  \cup {ErrorReply(c, <<"i","n","v","a","l","i","d">>) : c \in TokenCodes}
  \cup {ErrorReply(Chars5("4","5","0","0","9"), <<"q","u","o","t","a">>),
        ErrorReply(Chars5("4","5","0","0","9"),
                   <<"q","u","o","t","a"," ","r","i","d",":"," ","6","4","0","0","0","1","a">>)}

\* str(e) of the RequestException that _make_request raises (lines 170-181),
\* without the words around the reply that hold no digit
error_str(reply) ==
  IF reply.kind = "errcode" THEN reply.errcode \o <<" ">> \o reply.errmsg
  ELSE <<reply.kind>>

\* '40001' in error_str or '42001' in error_str or '40014' in error_str
HoldsTokenCode(text) == \E code \in TokenCodes : Contains(text, code)

\* a call starts (lines 186, 225, 279)
ApiCall ==
  /\ api.pc \in {"idle", "returned"}
  /\ \E method \in ApiMethods, retries \in 0..MaxRetries :
       api' = [pc |-> "entered", method |-> method, given |-> retries,
               retries |-> retries, sent |-> 0, refreshed |-> 0,
               retried_on |-> <<>>, value |-> None, error |-> None]
  /\ UNCHANGED <<rendererVars, previewVars, windowVars, image_cache, upload, publish, pasteVars>>

\* one pass through the method's body (lines 195-223, 235-277, 287-319):
\* the token, the request, and what the reply leads to
ApiAttempt ==
  /\ api.pc = "entered"
  /\ \E token \in BOOLEAN, reply \in Replies :
       api' =
         IF ~token
         THEN [api EXCEPT !.pc = "returned", !.error = <<"no token">>]
         ELSE IF reply.kind = "no_file"
         THEN [api EXCEPT !.pc = "returned", !.error = <<"unexpected error">>]
         ELSE IF reply.kind = "ok"
         THEN [api EXCEPT !.pc = "returned", !.sent = @ + 1, !.value = <<api.method>>]
         ELSE IF reply.kind = "no_field"
         THEN [api EXCEPT !.pc = "returned", !.sent = @ + 1, !.error = <<"failed">>]
         ELSE IF api.retries > 0 /\ HoldsTokenCode(error_str(reply))
         THEN [api EXCEPT !.sent = @ + 1, !.refreshed = @ + 1, !.retries = @ - 1,
                          !.retried_on = Append(@, reply)]
         ELSE [api EXCEPT !.pc = "returned", !.sent = @ + 1, !.error = error_str(reply)]
  /\ UNCHANGED <<rendererVars, previewVars, windowVars, image_cache, upload, publish, pasteVars>>

NextApi == ApiCall \/ ApiAttempt

SpecApi == InitWindow /\ [][NextApi]_vars

\* a call that started goes on
SpecApiFair == SpecApi /\ WF_vars(ApiAttempt)

(***************************************************************************)
(* Images (wechat_api.py lines 321-390).  image_cache is a function from   *)
(* the original URLs that were cached to the entries stored for them.      *)
(***************************************************************************)
\* the images a call can name: none, a local file, two pictures on the web
Images == {<<>>, <<"a.png">>, <<"http://b">>, <<"http://c">>}

IsRemote(original_url) == original_url \in {<<"http://b">>, <<"http://c">>}

\* what the server gives for an upload of the image
MediaIdOf(original_url) == <<"media_id">> \o original_url

WechatUrlOf(original_url) == <<"mmbiz">> \o original_url

\* how one upload goes: the download of a web picture fails; the upload
\* fails; the server accepts the picture, with or without 'url' in its
\* reply (line 258: data.get('url'))
UploadOutcomes == {"download_failed", "upload_failed", "uploaded", "uploaded_no_url"}

Returned(media_id, wechat_url, error) ==
  [media_id |-> media_id, url |-> wechat_url, error |-> error]

\* lines 225-277, by outcome: (media_id, url, error_message)
add_permanent_material(file_path, outcome) ==
  CASE outcome = "uploaded" -> Returned(MediaIdOf(file_path), WechatUrlOf(file_path), None)
    [] outcome = "uploaded_no_url" -> Returned(MediaIdOf(file_path), None, None)
    [] OTHER -> Returned(None, None, <<"error">>)

\* lines 186-223, by outcome: (url, error_message)
upload_image_for_content(image_path, outcome) ==
  CASE outcome = "uploaded" -> Returned(None, WechatUrlOf(image_path), None)
    [] OTHER -> Returned(None, None, <<"error">>)

\* image_cache.py lines 63-70
CacheGet(cache, original_url) ==
  IF original_url \in DOMAIN cache THEN cache[original_url] ELSE None

\* image_cache.py lines 72-84
CacheSet(cache, original_url, entry) ==
  [u \in DOMAIN cache \cup {original_url} |-> IF u = original_url THEN entry ELSE cache[u]]

\* lines 321-374: the cache after the call and what the call returns
_upload_image(cache, original_url, upload_type, outcome) ==
  IF original_url = <<>>
  THEN [cache |-> cache, hit |-> FALSE, ret |-> Returned(None, None, <<"empty url">>)]
  ELSE IF CacheGet(cache, original_url) # None
  THEN [cache |-> cache, hit |-> TRUE,
        ret |-> IF upload_type = "permanent"
                THEN Returned(CacheGet(cache, original_url).media_id,
                              CacheGet(cache, original_url).url, None)
                ELSE Returned(None, CacheGet(cache, original_url).url, None)]
  ELSE IF IsRemote(original_url) /\ outcome = "download_failed"
  THEN [cache |-> cache, hit |-> FALSE, ret |-> Returned(None, None, <<"download failed">>)]
  ELSE Bind(IF upload_type = "permanent" THEN add_permanent_material(original_url, outcome)
            ELSE upload_image_for_content(original_url, outcome),
            LAMBDA r :
              [cache |-> IF r.error = None /\ r.url # None
                         THEN CacheSet(cache, original_url, [media_id |-> r.media_id, url |-> r.url])
                         ELSE cache,
               hit |-> FALSE, ret |-> r])

\* process_content_images (lines 392-414) uploads one picture of the text
UploadContentImage ==
  \E original_url \in Images \ {<<>>}, outcome \in UploadOutcomes :
    \E R \in {_upload_image(image_cache, original_url, "content", outcome)} :
      /\ image_cache' = R.cache
      /\ upload' = [caller |-> "process_content_images", original_url |-> original_url,
                    upload_type |-> "content", hit |-> R.hit, ret |-> R.ret,
                    thumb_media_id |-> None]
      /\ UNCHANGED <<rendererVars, previewVars, windowVars, api, publish, pasteVars>>

\* get_thumb_media_id_and_url (lines 376-390) with a cover picture
GetThumbMediaId ==
  \E cover_image_path \in Images \ {<<>>}, outcome \in UploadOutcomes :
    \E R \in {_upload_image(image_cache, cover_image_path, "permanent", outcome)} :
      /\ image_cache' = R.cache
      /\ upload' = [caller |-> "get_thumb_media_id_and_url", original_url |-> cover_image_path,
                    upload_type |-> "permanent", hit |-> R.hit, ret |-> R.ret,
                    thumb_media_id |-> IF R.ret.error # None THEN None ELSE R.ret.media_id]
      /\ UNCHANGED <<rendererVars, previewVars, windowVars, api, publish, pasteVars>>

NextImages == UploadContentImage \/ GetThumbMediaId

SpecImages == InitWindow /\ [][NextImages]_vars

(***************************************************************************)
(* PublishWorker.run (workers.py lines 88-159).  The run is a thread of    *)
(* its own; it is followed statement by statement, with the network and    *)
(* the disk answering in between.                                          *)
(***************************************************************************)
MaxPublish == 2

\* except Exception (lines 158-159)
PublishFailed(P) == [P EXCEPT !.pc = "done", !.finished = Append(@, FALSE)]

\* a cover id that passes for one at line 123
thumb_always_there(thumb_media_id) == FALSE

\* line 123: not thumb_media_id
thumb_missing(thumb_media_id) == thumb_media_id = None

AfterPublishStep(P) ==
  /\ publish' = P
  /\ UNCHANGED <<rendererVars, previewVars, windowVars, api, upload, pasteVars>>

\* the thread starts run with the articles of the dialog
PublishRun ==
  /\ publish.pc \in {"idle", "done"}
  /\ \E total_articles \in 0..MaxPublish :
       AfterPublishStep([pc |-> IF total_articles = 0 THEN "create_draft" ELSE "render",
                         total_articles |-> total_articles, rendered |-> 0,
                         thumb_media_id |-> None, final_articles |-> <<>>,
                         create_draft_calls |-> 0, media_id |-> None,
                         archives |-> 0, finished |-> <<>>])
  /\ UNCHANGED image_cache

\* lines 98-115: the template, the theme, render and the digest; render can
\* raise
PublishRender ==
  /\ publish.pc = "render"
  /\ \E render_returned \in BOOLEAN :
       AfterPublishStep(IF render_returned
                        THEN [publish EXCEPT !.pc = "cover", !.rendered = @ + 1]
                        ELSE PublishFailed(publish))
  /\ UNCHANGED image_cache

\* lines 117-124: the cover
PublishCover ==
  /\ publish.pc = "cover"
  /\ \E cover_image_path \in Images, outcome \in UploadOutcomes,
        default_cover_media_id \in {None, <<"default cover">>} :
       \E R \in {_upload_image(image_cache, cover_image_path, "permanent", outcome)} :
         \E thumb_media_id \in {IF cover_image_path = <<>> THEN default_cover_media_id
                                ELSE IF R.ret.error # None THEN None
                                ELSE R.ret.media_id} :
           /\ image_cache' = R.cache
           /\ AfterPublishStep(IF thumb_missing(thumb_media_id)
                               THEN PublishFailed(publish)
                               ELSE [publish EXCEPT !.pc = "content_images",
                                                    !.thumb_media_id = thumb_media_id])

\* lines 126-142: the pictures of the text (one or none), and the article
\* as create_draft takes it
PublishContentImages ==
  /\ publish.pc = "content_images"
  /\ \E src \in Images, outcome \in UploadOutcomes :
       \E R \in {_upload_image(image_cache, src, "content", outcome)} :
         /\ image_cache' = R.cache
         /\ AfterPublishStep(
              [publish EXCEPT
                 !.final_articles = Append(@, [thumb_media_id |-> publish.thumb_media_id,
                                              content |-> <<"processed", R.ret.url>>]),
                 !.thumb_media_id = None,
                 !.pc = IF Len(publish.final_articles) + 1 < publish.total_articles
                        THEN "render" ELSE "create_draft"])

\* lines 144-146 and 155: create_draft, and its error raised
PublishCreateDraft ==
  /\ publish.pc = "create_draft"
  /\ \E created \in BOOLEAN :
       AfterPublishStep(IF created
                        THEN [publish EXCEPT !.pc = "archive", !.create_draft_calls = @ + 1,
                                             !.media_id = <<"draft">>]
                        ELSE PublishFailed([publish EXCEPT !.create_draft_calls = @ + 1]))
  /\ UNCHANGED image_cache

\* lines 151-152: one archive; save_html_archive can raise
PublishArchive ==
  /\ publish.pc = "archive"
  /\ publish.archives < Len(publish.final_articles)
  /\ \E saved \in BOOLEAN :
       AfterPublishStep(IF saved THEN [publish EXCEPT !.archives = @ + 1]
                        ELSE PublishFailed(publish))
  /\ UNCHANGED image_cache

\* line 153
PublishFinished ==
  /\ publish.pc = "archive"
  /\ publish.archives = Len(publish.final_articles)
  /\ AfterPublishStep([publish EXCEPT !.pc = "done", !.finished = Append(@, TRUE)])
  /\ UNCHANGED image_cache

NextPublish ==
  \/ PublishRun \/ PublishRender \/ PublishCover \/ PublishContentImages
  \/ PublishCreateDraft \/ PublishArchive \/ PublishFinished

SpecPublish == InitWindow /\ [][NextPublish]_vars

\* the thread runs on
SpecPublishFair ==
  /\ SpecPublish
  /\ WF_vars(PublishRender) /\ WF_vars(PublishCover) /\ WF_vars(PublishContentImages)
  /\ WF_vars(PublishCreateDraft) /\ WF_vars(PublishArchive) /\ WF_vars(PublishFinished)

(***************************************************************************)
(* Pasted pictures (editor.py).  The document is a sequence of pieces: a   *)
(* placeholder <<"uploading", upload_id>>, the Markdown of a picture       *)
(* <<"image", upload_id, success>> that took its place, or other text.     *)
(* threads[upload_id] is "run" while ImageUploadWorker.run works, "emitted"*)
(* when its finished signal waits for the GUI thread, "quit" when          *)
(* thread.quit() was called, "finished" when the thread has ended and      *)
(* "cleaned" after _cleanup_upload_task.                                   *)
(***************************************************************************)
MaxUploads == 3

MaxPieces == 4

Placeholder(upload_id) == <<"uploading", upload_id>>

\* lines 293-298: the Markdown that takes the place of the placeholder
final_markdown(upload_id, success) == <<"image", upload_id, success>>

InsertAt(seq, pos, piece) == SubSeq(seq, 1, pos) \o <<piece>> \o SubSeq(seq, pos + 1, Len(seq))

\* the first placeholder of the document, whose ever it is
FindAnyPlaceholder(text, upload_id) ==
  IF \E k \in DOMAIN text : text[k][1] = "uploading"
  THEN CHOOSE k \in DOMAIN text :
         text[k][1] = "uploading" /\ \A j \in 1..(k - 1) : text[j][1] # "uploading"
  ELSE 0

\* doc.find(full_placeholder, QTextCursor(text)) (lines 286, 309): the first
\* place of the placeholder with this id, 0 for a null cursor
FindPlaceholder(text, upload_id) ==
  IF \E k \in DOMAIN text : text[k] = Placeholder(upload_id)
  THEN CHOOSE k \in DOMAIN text :
         text[k] = Placeholder(upload_id) /\ \A j \in 1..(k - 1) : text[j] # Placeholder(upload_id)
  ELSE 0

SetThread(upload_id, state) ==
  threads' = [u \in DOMAIN threads \cup {upload_id} |->
                IF u = upload_id THEN state ELSE threads[u]]

ThreadAt(state) == {u \in DOMAIN threads : threads[u].pc = state}

AfterPaste == UNCHANGED <<rendererVars, previewVars, windowVars, api, image_cache, upload, publish>>

\* paste_image_async (lines 64-106) with the cursor after pos pieces
PasteImageAsync ==
  /\ Len(threads) < MaxUploads
  /\ Len(document) < MaxPieces
  /\ \E pos \in 0..Len(document), upload_id \in {Len(threads) + 1} :
       /\ document' = InsertAt(document, pos, Placeholder(upload_id))
       /\ upload_tasks' = upload_tasks \cup {upload_id}
       /\ SetThread(upload_id, [pc |-> "run", success |-> FALSE])
  /\ AfterPaste

\* the user types
TypeText ==
  /\ Len(document) < MaxPieces
  /\ \E pos \in 0..Len(document) : document' = InsertAt(document, pos, <<"text">>)
  /\ UNCHANGED <<upload_tasks, threads>>
  /\ AfterPaste

\* ImageUploadWorker.run (workers.py lines 217-229) in its thread
ImageUploadRun ==
  /\ \E upload_id \in ThreadAt("run"), success \in BOOLEAN :
       SetThread(upload_id, [pc |-> "emitted", success |-> success])
  /\ UNCHANGED <<document, upload_tasks>>
  /\ AfterPaste

\* _on_image_upload_finished (lines 266-327) for the signal of one worker
OnImageUploadFinished ==
  /\ \E upload_id \in ThreadAt("emitted") :
       \E k \in {FindPlaceholder(document, upload_id)} :
         /\ document' = IF k = 0 THEN document
                        ELSE [document EXCEPT ![k] = final_markdown(upload_id, threads[upload_id].success)]
         /\ IF upload_id \in upload_tasks
            THEN SetThread(upload_id, [threads[upload_id] EXCEPT !.pc = "quit"])
            ELSE UNCHANGED threads
  /\ UNCHANGED upload_tasks
  /\ AfterPaste

\* the event loop of a thread that was told to quit ends; thread.finished
ThreadFinished ==
  /\ \E upload_id \in ThreadAt("quit") :
       SetThread(upload_id, [threads[upload_id] EXCEPT !.pc = "finished"])
  /\ UNCHANGED <<document, upload_tasks>>
  /\ AfterPaste

\* _cleanup_upload_task (lines 329-335), the slot of thread.finished
CleanupUploadTask ==
  /\ \E upload_id \in ThreadAt("finished") :
       /\ upload_tasks' = upload_tasks \ {upload_id}
       /\ SetThread(upload_id, [threads[upload_id] EXCEPT !.pc = "cleaned"])
  /\ UNCHANGED document
  /\ AfterPaste

NextPaste ==
  \/ PasteImageAsync \/ TypeText \/ ImageUploadRun
  \/ OnImageUploadFinished \/ ThreadFinished \/ CleanupUploadTask

SpecPaste == InitWindow /\ [][NextPaste]_vars

(***************************************************************************)
(* Reading the tree the restructurer leaves.                               *)
(***************************************************************************)
InTree(d, n) == n = Body \/ Body \in Parents(d, n)

Handled(list_tag) == \E i \in DOMAIN calls : calls[i][1] = list_tag

\* the item consists of one <section> that starts with a <span>
IsWrapped(d, li) ==
  /\ Len(d[li].kids) = 1
  /\ d[d[li].kids[1]].tag = "section"
  /\ d[d[li].kids[1]].kids # <<>>
  /\ d[d[d[li].kids[1]].kids[1]].tag = "span"

SectionOf(d, li) == d[li].kids[1]

SpanOf(d, li) == d[SectionOf(d, li)].kids[1]

\* the string of the item's marker span
MarkerText(d, li) == d[d[SpanOf(d, li)].kids[1]].text

\* C1: after the restructurer every <li> of a list in the tree has
\* non-empty rendered text or an <img> below it
C1_ItemsNonEmpty ==
  pc = "lists" =>
    \A n \in DOMAIN doc :
      (doc[n].tag = "li" /\ InTree(doc, n) /\ doc[ParentOf(doc, n)].tag \in ListTags)
        => ~IsEmptyItem(doc, n)

\* C2: the surviving items of every handled ordered list carry the markers
\* 1., 2., ..., k. in document order
C2_OrdinalContiguity ==
  pc # "parsing" =>
    \A l \in DOMAIN doc :
      (doc[l].tag = "ol" /\ Handled(l)) =>
        LET items == FindChildren(doc, l, {"li"}) IN
          \A i \in DOMAIN items :
            /\ IsWrapped(doc, items[i])
            /\ MarkerText(doc, items[i]) = Digits(i) \o <<".", "NBSP">>

\* C2 witness: an ordered list lost an item and kept at least two
C2_Witness ==
  /\ pc = "lists"
  /\ \E l \in DOMAIN doc :
       /\ doc[l].tag = "ol" /\ Handled(l) /\ InTree(doc, l)
       /\ Len(FindChildren(doc, l, {"li"})) >= 2
       /\ Len(FindChildren(parsed, l, {"li"})) > Len(FindChildren(doc, l, {"li"}))
       /\ parsed[FindChildren(parsed, l, {"li"})[1]].kids = <<>>

\* C3: every element of the HTML render returns, the exempt ones aside,
\* carries only attributes of the allow-list
C3_AllowListClosure ==
  pc = "returned" =>
    \A i \in DOMAIN output :
      output[i].tag \notin {"html", "body", "head", "mp-common-profile"} =>
        DOMAIN output[i].attrs \subseteq
          {"style", "src", "href", "alt", "title", "width", "height",
           "data-src", "data-type", "data-w", "data-h", "class"}

\* C3 witness: a parsed element with attributes outside the allow-list is
\* part of the returned HTML
C3_Witness ==
  /\ pc = "returned"
  /\ \E n \in DOMAIN parsed :
       /\ {"id", "onclick"} \subseteq DOMAIN parsed[n].attrs
       /\ InTree(doc, n)
       /\ \E i \in DOMAIN output : output[i].tag = parsed[n].tag

\* C4: the HTML render returns holds no <script> and no <style> element,
\* and none is left anywhere in the tree
C4_NoScriptOrStyle ==
  pc = "returned" =>
    /\ \A i \in DOMAIN output : output[i].tag \notin {"script", "style"}
    /\ \A n \in DOMAIN doc : InTree(doc, n) => doc[n].tag \notin {"script", "style"}

\* C4 witness: the parsed document held a <style> with content below another
\* element, and render returned
C4_Witness ==
  /\ pc = "returned"
  /\ \E n \in DOMAIN parsed :
       /\ parsed[n].tag = "style"
       /\ parsed[n].kids # <<>>
       /\ ParentOf(parsed, n) # Body
       /\ doc[n] = Decomposed
       /\ doc[parsed[n].kids[1]] = Decomposed

\* C5: the restructurer never raises
C5_NeverRaises == ~raised

\* C6: no list is handed to style_list_items_recursively twice
C6_HandledAtMostOnce ==
  \A i, j \in DOMAIN calls : i # j => calls[i][1] # calls[j][1]

\* C7: every list left in the tree has been restructured
C7_AllListsRestructured ==
  pc = "lists" =>
    \A l \in DOMAIN doc :
      (doc[l].tag \in ListTags /\ InTree(doc, l)) =>
        /\ "style" \in DOMAIN doc[l].attrs
        /\ \A i \in DOMAIN FindChildren(doc, l, {"li"}) :
             IsWrapped(doc, FindChildren(doc, l, {"li"})[i])

\* C8: a surviving item of a handled list is one <section> holding the marker
\* span and then exactly the children the item had just before wrapping
C8_WrappedContent ==
  pc = "lists" =>
    \A li \in DOMAIN doc :
      (doc[li].tag = "li" /\ InTree(doc, li) /\ Handled(ParentOf(doc, li))) =>
        /\ li \in DOMAIN wraps
        /\ IsWrapped(doc, li)
        /\ MarkerText(doc, li) \in
             (IF doc[ParentOf(doc, li)].tag = "ul"
              THEN {<<"BULLET", "NBSP">>}
              ELSE {Digits(k) \o <<".", "NBSP">> : k \in 1..Len(doc)})
        /\ Tail(doc[SectionOf(doc, li)].kids) = wraps[li]

\* C9: in a wrapped item the node after the marker span is never a <p>
\* that was the first of several children of the item
C9_FirstParagraphUnwrapped ==
  pc = "lists" =>
    \A li \in DOMAIN wraps :
      (InTree(doc, li) /\ IsWrapped(doc, li) /\ Len(parsed[li].kids) > 1
         /\ parsed[parsed[li].kids[1]].tag = "p")
        => doc[SectionOf(doc, li)].kids[2] # parsed[li].kids[1]

\* C10: a <p> is unwrapped only when it is the sole child of its <li>
C10_OnlySoleChildUnwrapped ==
  pc = "lists" =>
    \A n \in DOMAIN parsed :
      (parsed[n].tag = "p" /\ doc[n].tag = "p" /\ ParentOf(doc, n) = 0)
        => /\ parsed[ParentOf(parsed, n)].tag = "li"
           /\ parsed[ParentOf(parsed, n)].kids = <<n>>

\* the number of lists around the list the item belongs to
ListDepth(d, li) ==
  Cardinality({a \in Parents(d, ParentOf(d, li)) : d[a].tag \in ListTags})

\* C11: every <li> of a list in the tree carries padding-left of 2em per
\* list enclosing its own list, whatever other blocks lie in between
C11_Indentation ==
  pc = "lists" =>
    \A li \in DOMAIN doc :
      (doc[li].tag = "li" /\ InTree(doc, li) /\ doc[ParentOf(doc, li)].tag \in ListTags)
        => GetAttr(doc, li, "style", "") =
             "display: block; margin-bottom: 0.5em; padding-left: "
               \o ToString(2 * ListDepth(doc, li)) \o "em;"

\* the same padding rule, for the items of the lists the routine was called on
C11_HandledIndentation ==
  pc = "lists" =>
    \A li \in DOMAIN doc :
      (doc[li].tag = "li" /\ InTree(doc, li) /\ Handled(ParentOf(doc, li)))
        => GetAttr(doc, li, "style", "") =
             "display: block; margin-bottom: 0.5em; padding-left: "
               \o ToString(2 * ListDepth(doc, li)) \o "em;"

\* C12: the filter applied to a filtered tree changes nothing: the tree after
\* the second application is the tree the first left, node for node, and
\* its elements and attributes are those the first application returned
C12_SanitizeIdempotent ==
  pc = "resanitized" =>
    /\ doc = filter_unsupported_elements(parsed)
    /\ decode_contents(doc, Body) = output

\* C12 witness: the first application removed a <script> or <style> and took
\* attributes off an element that stays, and the filter was applied again
C12_Witness ==
  /\ pc = "resanitized"
  /\ \E n \in DOMAIN parsed : parsed[n].tag \in {"script", "style"} /\ doc[n] = Decomposed
  /\ \E n \in DOMAIN parsed :
       /\ InTree(doc, n)
       /\ {"id", "onclick"} \subseteq DOMAIN parsed[n].attrs
       /\ DOMAIN doc[n].attrs = {"class"}

\* the text below n, every string in document order (get_text())
RECURSIVE JoinText(_, _)
JoinText(d, ns) ==
  IF ns = <<>> THEN <<>>
  ELSE (IF d[Head(ns)].tag = "#text" THEN d[Head(ns)].text ELSE <<>>)
       \o JoinText(d, Tail(ns))

TextContent(d, n) == JoinText(d, Descendants(d, n))

\* what the decorator may do to one <pre> of the tree d, leaving e
PreKept(d, e, pre_tag) ==
  LET content_area == ParentOf(e, pre_tag)
      container == ParentOf(e, content_area)
      p == ParentOf(d, pre_tag)
  IN /\ \A c \in {m \in DOMAIN d : d[m].tag = "code" /\ pre_tag \in Parents(d, m)} :
          TextContent(e, c) = TextContent(d, c)
     /\ \A m \in DOMAIN d : (m = pre_tag \/ pre_tag \in Parents(d, m)) =>
          /\ e[m].tag = d[m].tag
          /\ e[m].kids = d[m].kids
          /\ e[m].text = d[m].text
     /\ content_area # 0 /\ container # 0
     /\ e[content_area].tag = "div" /\ e[content_area].kids = <<pre_tag>>
     /\ e[container].tag = "div"
     /\ Len(e[container].kids) = 2
     /\ e[e[container].kids[1]].tag = "div"
     /\ e[container].kids[2] = content_area
     /\ Len(e[p].kids) = Len(d[p].kids)
     /\ e[p].kids[IndexOf(d[p].kids, pre_tag)] = container

\* C13: the decorator keeps, for every <pre>, the text of its <code> and the
\* children of every node of its subtree, and puts the <pre> into a content
\* <div> that follows the title bar inside a chrome <div> standing where the
\* <pre> stood
C13_CodePreserved ==
  [][(pc = "themed" /\ pc' = "decorated") =>
       \A n \in DOMAIN doc : (doc[n].tag = "pre" /\ InTree(doc, n)) => PreKept(doc, doc', n)]_vars

\* the same for the <pre> elements that hold no other <pre> and lie in none
C13_SinglePreKept ==
  [][(pc = "themed" /\ pc' = "decorated") =>
       \A n \in DOMAIN doc :
         (/\ doc[n].tag = "pre" /\ InTree(doc, n)
          /\ FindAll(doc, n, {"pre"}) = <<>>
          /\ ~HasParentNamed(doc, n, {"pre"})) => PreKept(doc, doc', n)]_vars

\* the title bar built for a decorated <pre>
TitleBarOf(d, pre_tag) == d[ParentOf(d, ParentOf(d, pre_tag))].kids[1]

\* C14: the title bar of a decorated <pre> holds the three dots and, when
\* the <code> in the <pre> has the class language-py, a label reading py;
\* without such a class it holds the three dots only
C14_LanguageLabel ==
  pc = "decorated" =>
    \A n \in DOMAIN doc : (doc[n].tag = "pre" /\ InTree(doc, n)) =>
      LET bar == doc[TitleBarOf(doc, n)].kids
          codes == FindAll(doc, n, {"code"})
      IN /\ Len(bar) >= 3
         /\ \A i \in 1..3 : doc[bar[i]].tag = "span"
         /\ IF codes # <<>> /\ GetAttr(doc, Head(codes), "class", "") = "language-py"
            THEN Len(bar) = 4 /\ TextContent(doc, bar[4]) = <<"p", "y">>
            ELSE Len(bar) = 3

\* the title bar of every decorated <pre> holds exactly the three dots
C14_OnlyDots ==
  pc = "decorated" =>
    \A n \in DOMAIN doc : (doc[n].tag = "pre" /\ InTree(doc, n)) =>
      /\ Len(doc[TitleBarOf(doc, n)].kids) = 3
      /\ \A i \in 1..3 : doc[doc[TitleBarOf(doc, n)].kids[i]].tag = "span"

\* the profile element n of the parsed document is in the tree as it was
\* parsed and is listed, with its attributes, in what render returns
ProfileKept(n) ==
  /\ InTree(doc, n)
  /\ doc[n].tag = "mp-common-profile"
  /\ doc[n].attrs = parsed[n].attrs
  /\ \E i \in DOMAIN output :
       output[i] = [tag |-> "mp-common-profile", attrs |-> parsed[n].attrs]

\* C15: a render for publishing (for_preview false) returns every
\* mp-common-profile of the parsed document unexpanded, with the attributes
\* it was parsed with
C15_ProfileKeptWhenPublishing ==
  (pc = "returned" /\ ~forPreview) =>
    \A n \in DOMAIN parsed : parsed[n].tag = "mp-common-profile" => ProfileKept(n)

\* the same for the profile elements that do not lie in a list item
C15_ProfileOutsideListsKept ==
  (pc = "returned" /\ ~forPreview) =>
    \A n \in DOMAIN parsed :
      (parsed[n].tag = "mp-common-profile" /\ ~HasParentNamed(parsed, n, {"li"}))
        => ProfileKept(n)

\* the body background the mode and the theme call for
ModeBackground ==
  IF mode = "light" THEN "#ffffff"
  ELSE IF "body_background_color" \in DOMAIN theme
       THEN Text(theme["body_background_color"]) ELSE "#2e2e2e"

\* the text colour the mode and the theme call for
ModeTextColor ==
  IF mode = "light" THEN "#333333"
  ELSE IF "body_text_color" \in DOMAIN theme
       THEN Text(theme["body_text_color"]) ELSE "#f0f0f0"

\* the theme's own body style, as appended to the forced colours
RawBodyStyle == IF "body" \in DOMAIN theme THEN " " \o Text(theme["body"]) ELSE ""

\* C17: the body style carries the background and the text colour of the
\* mode (white and #333333 in light mode, the theme's or the default dark
\* colours in dark mode), followed by the theme's raw body style
C17_BodyColors ==
  pc = "themed" =>
    \E important \in {"", " !important"} :
      doc[Body].attrs["style"] =
        "background-color: " \o ModeBackground \o important
          \o "; color: " \o ModeTextColor \o ";" \o RawBodyStyle

\* the text colour and the raw body style alone are those of C17, behind a
\* background that is white in either mode
C17_TextColorOnly ==
  pc = "themed" =>
    doc[Body].attrs["style"] =
      "background-color: #ffffff !important; color: " \o ModeTextColor \o ";" \o RawBodyStyle

\* the style text declares the property color: "color:" stands at the start
\* of a declaration
DeclaresColor(style) ==
  \E i \in 1..(Len(style) - 5) :
    /\ SubSeq(Lower(style), i, i + 5) = <<"c", "o", "l", "o", "r", ":">>
    /\ (i = 1 \/ style[i - 1] \in {";", " "})

\* the style an element of a themed tag has after the styler, with or
\* without the mode's text colour in front
ThemedWith(n, withColor) ==
  LET style == Text(theme[doc[n].tag])
      existing_style == GetAttr(parsed, n, "style", "")
      own == IF existing_style = "" THEN style \o ";" ELSE style \o "; " \o existing_style
  IN doc[n].attrs["style"] = (IF withColor THEN "color: " \o ModeTextColor \o "; " ELSE "") \o own

\* C18: an element styled through a tag key of the theme has the mode's
\* text colour in front of its style exactly when the theme's style for the
\* tag does not declare the property color
C18_ColorOmittedIffDeclared ==
  pc = "themed" =>
    \A n \in DOMAIN parsed :
      (InTree(doc, n) /\ doc[n].tag \in (DOMAIN theme) \ NotTagKeys)
        => ThemedWith(n, ~DeclaresColor(theme[doc[n].tag]))

\* the colour is left out exactly when "color:" occurs anywhere in the
\* lower-cased style text
C18_OmittedIffSubstring ==
  pc = "themed" =>
    \A n \in DOMAIN parsed :
      (InTree(doc, n) /\ doc[n].tag \in (DOMAIN theme) \ NotTagKeys)
        => ThemedWith(n, ~Contains(Lower(theme[doc[n].tag]), <<"c", "o", "l", "o", "r", ":">>))

\* what one call of render reads and writes besides the theme
renderVars ==
  <<doc, pc, parsed, calls, wraps, raised, forPreview, mode, output, md,
    markdown_text, processed_text>>

\* C16: what a render returns is what the same call (text, theme, mode,
\* for_preview) returns on a renderer whose Markdown instance has converted
\* nothing before
C16_NoCrossCallState ==
  [][(renderVars' # renderVars /\ pc' = "returned") =>
       output' = render(<<>>, theme, markdown_text', mode', forPreview').output]_vars

\* what a render returns is what the same call returns on a renderer whose
\* Markdown instance holds the footnotes this one held before the call
C16_OutputFromStoredFootnotes ==
  [][(renderVars' # renderVars /\ pc' = "returned") =>
       output' = render(md, theme, markdown_text', mode', forPreview').output]_vars

\* the Markdown instance holds every footnote it held before: no call
\* empties it
C16_FootnotesKept ==
  [][\A i \in DOMAIN md : \E j \in DOMAIN md' : md'[j].id = md[i].id]_vars

\* C20, reading the texts: the lines of a text, whether a line is a fence
\* line, and whether line i lies in a fenced block (an odd number of fence
\* lines among the lines up to and including it)
IsFenceLine(line) == StartsWith(Strip(line), <<"BACKTICK", "BACKTICK", "BACKTICK">>)

InFence(lines, i) == Cardinality({j \in 1..i : IsFenceLine(lines[j])}) % 2 = 1

\* C20: line for line, the four leading spaces of a non-blank line are
\* removed if and only if the line lies outside the fenced blocks; every
\* other line, and every line after an unmatched fence, is returned as it is
C20_IndentStrippedOutsideFences ==
  pc = "preprocessed" =>
    LET lines == SplitLines(markdown_text)
        out == SplitLines(processed_text)
    IN /\ Len(out) = Len(lines)
       /\ \A i \in DOMAIN lines :
            IF StartsWith(lines[i], <<" ", " ", " ", " ">>) /\ Strip(lines[i]) # <<>>
                 /\ ~InFence(lines, i)
            THEN out[i] = SubSeq(lines[i], 5, Len(lines[i]))
            ELSE out[i] = lines[i]

\* C20 witness: an indented line inside a closed fenced block was kept, and
\* an indented line after the block lost its four spaces
C20_Witness ==
  /\ pc = "preprocessed"
  /\ LET lines == SplitLines(markdown_text)
         out == SplitLines(processed_text)
     IN /\ Len(lines) = 4
        /\ lines[1] = <<"BACKTICK", "BACKTICK", "BACKTICK">>
        /\ lines[2] = <<" ", " ", " ", " ", "x">> /\ out[2] = lines[2]
        /\ lines[3] = <<"BACKTICK", "BACKTICK", "BACKTICK">>
        /\ lines[4] = <<" ", " ", " ", " ", " ", "x">> /\ out[4] = <<" ", "x">>

\* C19, reading names: equal but for the case of the letters
SameIgnoringCase(a, b) ==
  Len(a) = Len(b) /\ \A i \in DOMAIN a : Lower(<<a[i]>>) = Lower(<<b[i]>>)

\* C19: the theme in force is the registry's theme for the requested name,
\* compared without regard to case, and the minimalist_white theme when the
\* registry has no such name; nothing was raised; get_available_themes
\* returned the names of the registry
C19_ThemeSelection ==
  LET hits == {i \in DOMAIN THEMES : SameIgnoringCase(THEMES[i].name, theme_name)} IN
    /\ \A i \in hits : theme = THEMES[i].theme
    /\ hits = {} =>
         \E i \in DOMAIN THEMES :
           /\ THEMES[i].name = <<"m", "i", "n", "i", "m", "a", "l", "i", "s", "t", "_",
                                 "w", "h", "i", "t", "e">>
           /\ theme = THEMES[i].theme
    /\ ~raised
    /\ available # <<>> =>
         /\ Len(available) = Len(THEMES)
         /\ \A i \in DOMAIN THEMES : available[i] = THEMES[i].name

\* C19 witness: after a render under the blue theme (its wrapper <div> is
\* in the output) set_theme was given an unregistered name and the default
\* theme is in force; the names have been asked for
C19_Witness ==
  /\ theme_name = <<"n", "o", "p", "e">>
  /\ theme = ThemeBare
  /\ available # <<>>
  /\ pc = "returned"
  /\ \E i \in DOMAIN output :
       output[i].tag = "div" /\ "style" \in DOMAIN output[i].attrs
         /\ output[i].attrs["style"] = "background-color: #eeeeee; padding: 10px"

\* C30, reading the texts: the fenced blocks of a text in order, each the
\* lines strictly between an opening fence line and its closing fence line
RECURSIVE FencedBlocks(_, _, _)
FencedBlocks(lines, inside, block) ==
  IF lines = <<>> THEN <<>>
  ELSE IF IsFenceLine(Head(lines))
  THEN IF inside THEN <<block>> \o FencedBlocks(Tail(lines), FALSE, <<>>)
       ELSE FencedBlocks(Tail(lines), TRUE, <<>>)
  ELSE FencedBlocks(Tail(lines), inside,
                    IF inside THEN Append(block, Head(lines)) ELSE block)

\* C30: the fenced blocks of the preprocessed text are the fenced blocks of
\* the text: the same lines in the same order, none changed, none inserted
C30_FencedBlocksUntouched ==
  pc = "preprocessed" =>
    FencedBlocks(SplitLines(processed_text), FALSE, <<>>)
      = FencedBlocks(SplitLines(markdown_text), FALSE, <<>>)

\* the fenced blocks that hold no list item and no escaped link are returned
\* as they are
C30_PlainBlocksUntouched ==
  (pc = "preprocessed" /\ \A line \in ListLines :
                            \A i \in DOMAIN SplitLines(markdown_text) :
                              SplitLines(markdown_text)[i] # line) =>
    FencedBlocks(SplitLines(processed_text), FALSE, <<>>)
      = FencedBlocks(SplitLines(markdown_text), FALSE, <<>>)

\* C21: a preview update in which render raised leaves the HTML shown as it
\* was, and the next render of a document that renders returns what it
\* would have returned without the failed call
C21_FailedPreviewLeavesNoTrace ==
  [][(raised' /\ rendererVars' # rendererVars) =>
       /\ html_preview' = html_preview
       /\ \A text \in {<<"x">>, <<"[", "^", "b", "]", ":", " ", "m">>},
             name \in PreviewThemes, m \in {"light", "dark"} :
            render(md', _load_theme(name), text, m, TRUE).output
              = render(md, _load_theme(name), text, m, TRUE).output]_vars

\* a preview update in which render raised leaves the HTML shown as it was
C21_ShownHtmlKept ==
  [][(raised' /\ rendererVars' # rendererVars) => html_preview' = html_preview]_vars

\* a preview update in which render raised changed nothing but the
\* footnotes the Markdown instance holds, the theme and the record of the
\* call
C21_OnlyFootnotesAdded ==
  [][(raised' /\ rendererVars' # rendererVars) =>
       /\ available' = available
       /\ \A i \in DOMAIN md : \E j \in DOMAIN md' : md'[j] = md[i]]_vars

\* reading the record of the queue: the position of a URL among the URLs
\* queued, 0 when it was not queued
QueuedAt(u) ==
  IF \E i \in DOMAIN queued : queued[i].url = u
  THEN CHOOSE i \in DOMAIN queued : queued[i].url = u ELSE 0

C23_WrittenAtRecordedIndex ==
  [][\A i \in DOMAIN articles, j \in DOMAIN articles' :
       (articles[i].id = articles'[j].id /\ articles[i].content # articles'[j].content) =>
         /\ articles'[j].content[1] \in {"crawling", "progress", "result", "failed"}
         /\ i = j
         /\ \/ i - 1 = crawling_article_index
            \/ crawl_queue # <<>> /\ i - 1 = Head(crawl_queue).article_index]_vars

\* C27: every URL queued gets a running worker, its placeholder then shows
\* the crawled content or a failure text, and the worker is dropped
C27_EveryUrlCrawled ==
  \A u \in Urls :
    (QueuedAt(u) # 0) ~>
      /\ \E i \in DOMAIN started : started[i] = u
      /\ crawl_worker # <<u>>
      /\ \A i \in DOMAIN articles :
           articles[i].id = queued[QueuedAt(u)].id =>
             articles[i].content \in {<<"result", u>>, <<"failed", u>>}

\* C24: current_article_index is -1 or an index of the list; the editor
\* holds the content of the article at that index, and nothing at -1
C24_EditorShowsCurrentArticle ==
  /\ current_article_index \in -1..(Len(articles) - 1)
  /\ IF current_article_index = -1 THEN editor = <<>>
     ELSE editor = articles[current_article_index + 1].content

\* C24 witness: an article that was typed into was duplicated and its copy
\* moved to the top of a list of three, where it is the current article
C24_Witness ==
  /\ Len(articles) = 3
  /\ current_article_index = 0
  /\ articles[1].content \in TypedTexts
  /\ \E i \in 2..3 : articles[i].content = articles[1].content /\ articles[i].id < articles[1].id

\* C25: a call is retried only after a failure with one of the error codes
\* 40001, 42001 and 40014
C25_OnlyTokenErrorsRetried ==
  api.pc # "idle" =>
    \A i \in DOMAIN api.retried_on :
      api.retried_on[i].kind = "errcode" /\ api.retried_on[i].errcode \in TokenCodes

\* C25, the bound: one call sends at most retries + 1 requests and fetches
\* a new token at most retries times
C25_AtMostRetriesPlusOne ==
  api.pc # "idle" =>
    /\ api.sent <= api.given + 1
    /\ api.refreshed <= api.given
    /\ api.refreshed = Len(api.retried_on)
    /\ api.retries = api.given - api.refreshed

\* C25, termination: a call that was entered returns
C25_Terminates == (api.pc = "entered") ~> (api.pc = "returned")

\* C25, the result: a call that returned holds a value or an error text,
\* and a failure with a token code is retried while retries are left
C25_ValueOrError ==
  api.pc = "returned" => (api.value = None) # (api.error = None)

\* C29: _upload_image(url, upload_type='permanent') that returns without an
\* error message returns a media_id, for a fresh upload and for a cache hit
C29_PermanentHasMediaId ==
  (upload.caller # "none" /\ upload.upload_type = "permanent" /\ upload.ret.error = None)
    => upload.ret.media_id # None

\* C29, the fresh upload: a permanent upload that went to the server and
\* returned without an error message has the media_id the server gave
C29_FreshUploadHasMediaId ==
  (upload.caller # "none" /\ upload.upload_type = "permanent" /\ ~upload.hit
     /\ upload.ret.error = None)
    => upload.ret.media_id = MediaIdOf(upload.original_url)

\* C29, the cache: an entry without media_id was stored by a content upload
C29_CachedByUploadType ==
  \A u \in DOMAIN image_cache :
    /\ image_cache[u].url = WechatUrlOf(u)
    /\ image_cache[u].media_id \in {None, MediaIdOf(u)}

\* C28: in one run create_draft is called at most once, and only when
\* every article was rendered, has a cover id and had its pictures
\* processed; a run that failed for an article made no call; archives are
\* written only with the media_id of the draft; finished is emitted once,
\* at the end of the run
C28_DraftAfterAllArticles ==
  publish.pc # "idle" =>
    /\ publish.create_draft_calls <= 1
    /\ publish.create_draft_calls = 1 =>
         /\ publish.rendered = publish.total_articles
         /\ Len(publish.final_articles) = publish.total_articles
         /\ \A k \in DOMAIN publish.final_articles :
              /\ publish.final_articles[k].thumb_media_id # None
              /\ publish.final_articles[k].content[1] = "processed"
    /\ (publish.pc = "done" /\ Len(publish.final_articles) < publish.total_articles)
         => publish.create_draft_calls = 0
    /\ publish.archives > 0 => publish.media_id # None
    /\ Len(publish.finished) = (IF publish.pc = "done" THEN 1 ELSE 0)

\* C28 witness: a run with two articles created the draft, wrote both
\* archives and emitted finished(True)
C28_Witness ==
  /\ publish.pc = "done"
  /\ publish.total_articles = 2
  /\ publish.create_draft_calls = 1
  /\ publish.archives = 2
  /\ publish.finished = <<TRUE>>

\* C28, the end: a run that started emits finished
C28_RunEnds == (publish.pc \notin {"idle", "done"}) ~> (publish.pc = "done")

\* the step in which the GUI thread takes the result of upload u
ResultTaken(u) ==
  /\ u \in DOMAIN threads
  /\ threads[u].pc = "emitted"
  /\ threads'[u].pc = "quit"

\* C26: the result of an upload takes the place of the placeholder with its
\* own id and of nothing else; an upload is in upload_tasks from its start
\* until its thread has finished; with every upload finished and cleaned up
\* upload_tasks is empty
C26_UploadsKeepApart ==
  /\ [][\A u \in 1..MaxUploads :
          ResultTaken(u) =>
            /\ Len(document') = Len(document)
            /\ \A k \in DOMAIN document :
                 document'[k] = IF document[k] = <<"uploading", u>>
                                THEN <<"image", u, threads[u].success>>
                                ELSE document[k]
            /\ \E k \in DOMAIN document : document[k] = <<"uploading", u>>]_vars
  /\ [](\A u \in DOMAIN threads :
          /\ threads[u].pc \in {"run", "emitted", "quit"} => u \in upload_tasks
          /\ threads[u].pc = "cleaned" => u \notin upload_tasks)
  /\ []((\A u \in DOMAIN threads : threads[u].pc = "cleaned") => upload_tasks = {})

\* C26 witness: three uploads were under way together and the one pasted
\* last has its result in the document while the first still shows its
\* placeholder
C26_Witness ==
  /\ Len(threads) = 3
  /\ threads[3].pc \in {"quit", "finished", "cleaned"}
  /\ threads[1].pc \in {"run", "emitted"}
  /\ \E k \in DOMAIN document : document[k][1] = "image" /\ document[k][2] = 3
  /\ \E k \in DOMAIN document : document[k] = <<"uploading", 1>>
  /\ 1 \in upload_tasks

====
